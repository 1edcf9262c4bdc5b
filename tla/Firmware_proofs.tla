---------------------------- MODULE Firmware_proofs ----------------------------
(***************************************************************************)
(* Proofs about the log of the application and the USB host driver of the modem,  *)
(* for every value of the constants of MCFirmware.                            *)
(***************************************************************************)
EXTENDS MCFirmware, FiniteSetTheorems, WellFoundedInduction, TLAPS

(***************************************************************************)
(* LogRing.  While t3ch_log_del is at work the slots before its index are already   *)
(* those of the array without its first line, and the others still those of the     *)
(* full one.                                                                    *)
(***************************************************************************)

\* The places of the log task, which the viewer never changes.
TaskTypes ==
    /\ lpc \in {"idle", "shift", "append"}
    /\ si \in Slots
    /\ log \in [Slots -> Int]
    /\ LOG_POS \in Nat
    /\ log_cnt \in Nat

RingIdle ==
    lpc = "idle" =>
        /\ LOG_POS = IF log_cnt <= LOG_SIZE THEN log_cnt - 1 ELSE LOG_SIZE - 1
        /\ \A k \in 0 .. LOG_POS - 1 : log[k] = log_cnt - LOG_POS + k

RingAppend ==
    lpc = "append" =>
        /\ LOG_POS = IF log_cnt < LOG_SIZE THEN log_cnt - 1 ELSE LOG_SIZE - 2
        /\ \A k \in 0 .. LOG_POS - 1 : log[k] = log_cnt - LOG_POS + k

RingShift ==
    lpc = "shift" =>
        /\ LOG_POS = LOG_SIZE - 1 /\ log_cnt >= LOG_SIZE
        /\ \A k \in 0 .. LOG_SIZE - 3 : k < si => log[k] = log_cnt - LOG_POS + k + 1
        /\ \A k \in 0 .. LOG_SIZE - 2 : k >= si => log[k] = log_cnt - LOG_POS + k

RingInv == /\ TaskTypes
           /\ log_cnt >= 1
           /\ RingIdle /\ RingAppend /\ RingShift

LEMMA RingInit == Init => RingInv
<1> SUFFICES ASSUME Init
             PROVE  RingInv
  OBVIOUS
<1>1. LOG_SIZE \in Nat /\ LOG_SIZE >= 2
  BY LogAssumption
<1>2. /\ lpc = "idle" /\ si = 0 /\ log = [k \in Slots |-> 0]
      /\ LOG_POS = 0 /\ log_cnt = 1
  BY DEF Init
<1>3. TaskTypes
  BY <1>1, <1>2 DEF TaskTypes, Slots
<1>4. QED
  BY <1>1, <1>2, <1>3 DEF RingInv, RingIdle, RingAppend, RingShift

LEMMA RingStep == RingInv /\ [Next]_vars => RingInv'
<1> SUFFICES ASSUME RingInv, [Next]_vars
             PROVE  RingInv'
  OBVIOUS
<1>1. LOG_SIZE \in Nat /\ LOG_SIZE >= 2
  BY LogAssumption
<1>2. /\ log \in [Slots -> Int] /\ LOG_POS \in Nat /\ log_cnt \in Nat
      /\ log_cnt >= 1 /\ si \in Slots
  BY DEF RingInv, TaskTypes
<1>3. ASSUME UNCHANGED << lpc, si, log, LOG_POS, log_cnt >>
      PROVE  RingInv'
  BY <1>3, Zenon DEF RingInv, TaskTypes, RingIdle, RingAppend, RingShift
<1>4. CASE Logged
  BY <1>3, <1>4, Zenon DEF Logged
<1>5. CASE Receive
  <2>1. /\ lpc = "idle" /\ si' = 0
        /\ lpc' = IF Full THEN "shift" ELSE "append"
        /\ UNCHANGED << log, LOG_POS, log_cnt >>
    BY <1>5, Zenon DEF Receive
  <2>2. /\ LOG_POS = IF log_cnt <= LOG_SIZE THEN log_cnt - 1 ELSE LOG_SIZE - 1
        /\ \A k \in 0 .. LOG_POS - 1 : log[k] = log_cnt - LOG_POS + k
    BY <2>1 DEF RingInv, RingIdle
  <2>3. TaskTypes'
    BY <1>1, <1>2, <2>1 DEF TaskTypes, Slots
  <2>4. CASE Full
    <3>1. lpc' = "shift" /\ LOG_POS = LOG_SIZE - 1 /\ log_cnt >= LOG_SIZE
      BY <1>1, <1>2, <2>1, <2>2, <2>4 DEF Full
    <3>2. RingShift'
      BY <1>1, <1>2, <2>1, <2>2, <3>1 DEF RingShift
    <3>3. QED
      BY <1>2, <2>1, <2>3, <3>1, <3>2 DEF RingInv, RingIdle, RingAppend
  <2>5. CASE ~ Full
    <3>1. /\ lpc' = "append"
          /\ LOG_POS = IF log_cnt < LOG_SIZE THEN log_cnt - 1 ELSE LOG_SIZE - 2
      BY <1>1, <1>2, <2>1, <2>2, <2>5 DEF Full
    <3>2. RingAppend'
      BY <2>1, <2>2, <3>1 DEF RingAppend
    <3>3. QED
      BY <1>2, <2>1, <2>3, <3>1, <3>2 DEF RingInv, RingIdle, RingShift
  <2>6. QED
    BY <2>4, <2>5
<1>6. CASE Shift
  <2>1. /\ lpc = "shift" /\ log_cnt' = log_cnt
        /\ LOG_POS = LOG_SIZE - 1 /\ log_cnt >= LOG_SIZE
        /\ \A k \in 0 .. LOG_SIZE - 3 : k < si => log[k] = log_cnt - LOG_POS + k + 1
        /\ \A k \in 0 .. LOG_SIZE - 2 : k >= si => log[k] = log_cnt - LOG_POS + k
    BY <1>6 DEF Shift, RingInv, RingShift
  <2>2. CASE si < LOG_SIZE - 1
    <3>1. /\ log' = [log EXCEPT ![si] = log[si + 1]]
          /\ si' = si + 1 /\ lpc' = "shift" /\ LOG_POS' = LOG_POS
      BY <1>6, <2>1, <2>2 DEF Shift
    <3>2. si + 1 \in Slots
      BY <1>1, <1>2, <2>2 DEF Slots
    <3>3. /\ log' \in [Slots -> Int]
          /\ \A k \in Slots : log'[k] = IF k = si THEN log[si + 1] ELSE log[k]
      BY <1>2, <3>1, <3>2
    <3>4. TaskTypes'
      BY <1>2, <2>1, <3>1, <3>2, <3>3 DEF TaskTypes
    <3>5. ASSUME NEW k \in 0 .. LOG_SIZE - 3, k < si'
          PROVE  log'[k] = log_cnt - LOG_POS + k + 1
      <4>1. k \in Slots /\ k \in Int
        BY <1>1 DEF Slots
      <4>2. CASE k = si
        <5>1. log'[k] = log[k + 1]
          BY <3>3, <4>1, <4>2
        <5>2. k + 1 \in 0 .. LOG_SIZE - 2 /\ k + 1 >= si
          BY <1>1, <1>2, <4>2
        <5>3. QED
          BY <1>2, <2>1, <4>1, <5>1, <5>2
      <4>3. CASE k # si
        <5>1. log'[k] = log[k] /\ k < si
          BY <1>2, <3>1, <3>3, <3>5, <4>1, <4>3 DEF Slots
        <5>2. QED
          BY <2>1, <5>1
      <4>4. QED
        BY <4>2, <4>3
    <3>6. ASSUME NEW k \in 0 .. LOG_SIZE - 2, k >= si'
          PROVE  log'[k] = log_cnt - LOG_POS + k
      <4>1. k \in Slots /\ k # si /\ k >= si
        BY <1>1, <1>2, <3>1, <3>6 DEF Slots
      <4>2. QED
        BY <2>1, <3>3, <4>1
    <3>7. RingShift'
      BY <2>1, <3>1, <3>5, <3>6 DEF RingShift
    <3>8. QED
      BY <1>2, <2>1, <3>1, <3>4, <3>7 DEF RingInv, RingIdle, RingAppend
  <2>3. CASE si >= LOG_SIZE - 1
    <3>1. PICK x \in Beyond : log' = [log EXCEPT ![si] = x]
      BY <1>1, <1>2, <1>6, <2>3 DEF Shift, Slots
    <3>2. si' = 0 /\ lpc' = "append" /\ LOG_POS' = LOG_POS - 1
      BY <1>1, <1>2, <1>6, <2>3 DEF Shift, Slots, PosAfterDel
    <3>3. x \in Int
      BY LogAssumption DEF Beyond
    <3>4. si = LOG_SIZE - 1
      BY <1>1, <1>2, <2>3 DEF Slots
    <3>5. /\ log' \in [Slots -> Int]
          /\ \A k \in Slots : k # si => log'[k] = log[k]
      BY <1>2, <3>1, <3>3
    <3>6. LOG_POS' = LOG_SIZE - 2 /\ log_cnt' >= LOG_SIZE
      BY <1>1, <2>1, <3>2
    <3>7. TaskTypes'
      BY <1>1, <1>2, <2>1, <3>2, <3>5, <3>6 DEF TaskTypes, Slots
    <3>8. ASSUME NEW k \in 0 .. LOG_POS' - 1
          PROVE  log'[k] = log_cnt' - LOG_POS' + k
      <4>1. k \in 0 .. LOG_SIZE - 3 /\ k < si /\ k \in Slots /\ k # si
        BY <1>1, <3>4, <3>6 DEF Slots
      <4>2. log'[k] = log_cnt - LOG_POS + k + 1
        BY <2>1, <3>5, <4>1
      <4>3. QED
        BY <1>1, <1>2, <2>1, <3>6, <4>1, <4>2
    <3>9. RingAppend'
      BY <1>1, <1>2, <2>1, <3>2, <3>6, <3>8 DEF RingAppend
    <3>10. QED
      BY <1>2, <2>1, <3>2, <3>7, <3>9 DEF RingInv, RingIdle, RingShift
  <2>4. QED
    BY <1>1, <1>2, <2>2, <2>3 DEF Slots
<1>7. CASE AppendLine
  <2>1. /\ lpc = "append" /\ lpc' = "idle" /\ si' = si
        /\ log' = [log EXCEPT ![LOG_POS] = log_cnt]
        /\ LOG_POS' = LOG_POS + 1 /\ log_cnt' = log_cnt + 1
    BY <1>7, Zenon DEF AppendLine
  <2>2. /\ LOG_POS = IF log_cnt < LOG_SIZE THEN log_cnt - 1 ELSE LOG_SIZE - 2
        /\ \A k \in 0 .. LOG_POS - 1 : log[k] = log_cnt - LOG_POS + k
    BY <2>1 DEF RingInv, RingAppend
  <2>3. LOG_POS \in Slots
    BY <1>1, <1>2, <2>2 DEF Slots
  <2>4. /\ log' \in [Slots -> Int]
        /\ \A k \in Slots : log'[k] = IF k = LOG_POS THEN log_cnt ELSE log[k]
    BY <1>2, <2>1, <2>3
  <2>5. TaskTypes'
    BY <1>2, <2>1, <2>4 DEF TaskTypes
  <2>6. ASSUME NEW k \in 0 .. LOG_POS' - 1
        PROVE  log'[k] = log_cnt' - LOG_POS' + k
    <3>1. k \in Slots /\ (k = LOG_POS \/ k \in 0 .. LOG_POS - 1)
      BY <1>1, <1>2, <2>1, <2>3 DEF Slots
    <3>2. CASE k = LOG_POS
      BY <1>2, <2>1, <2>4, <3>1, <3>2
    <3>3. CASE k \in 0 .. LOG_POS - 1
      BY <1>2, <2>1, <2>2, <2>4, <3>1, <3>3
    <3>4. QED
      BY <3>1, <3>2, <3>3
  <2>7. LOG_POS' = IF log_cnt' <= LOG_SIZE THEN log_cnt' - 1 ELSE LOG_SIZE - 1
    BY <1>1, <1>2, <2>1, <2>2
  <2>8. RingIdle'
    BY <2>6, <2>7, Zenon DEF RingIdle
  <2>9. QED
    BY <1>2, <2>1, <2>5, <2>8 DEF RingInv, RingAppend, RingShift
<1>8. CASE Viewer
  BY <1>3, <1>8, Zenon DEF Viewer, View, OldBegin, OldTake, OldSend, NewBegin,
     NewWalk, NewTake, NewSend, task
<1>9. CASE UNCHANGED vars
  BY <1>3, <1>9, Zenon DEF vars, task
<1>10. QED
  BY <1>4, <1>5, <1>6, <1>7, <1>8, <1>9 DEF Next

\* Between two lines the array holds the last lines logged, in order and without a
\* hole, for every size of the array: t3ch_log_del shifts it right.
THEOREM IdsAreConsecutive == Spec => []IdsAccount
<1>1. RingInv => IdsAccount
  BY DEF RingInv, RingIdle, IdsAccount
<1>2. QED
  BY <1>1, RingInit, RingStep, PTL DEF Spec

-----------------------------------------------------------------------------
(* The viewer.  As long as the array does not move while it is read (raced), a     *)
(* place in the array means the same id from the start of a walk to its end.      *)

\* The id of the oldest line that is kept, once a shift is complete.
Oldest == log_cnt - LOG_POS

\* Lines from an id up to the last one shown are all shown.
ShownFrom(a) == \A id \in a .. log_lastid : id \in shown

NewPlaces == {"new", "newwalk", "newtake", "newsend"}

ViewTypes ==
    /\ vpc \in {"off", "old", "oldtake", "oldsend"} \cup NewPlaces
    /\ log_lastid \in Nat /\ fromPos \in Nat
    /\ \A id \in shown : id \in Int /\ id <= log_lastid

\* A walk is inside the array, and t3ch_log_del has not begun to move it.
WalkInv ==
    Walking => /\ lpc = "shift" => si = 0
               /\ i \in 0 .. LOG_POS - 1

\* Old lines come in descending order from the place that fromPos says.
OldInv ==
    /\ vpc \in {"off", "old"} => (failed \/ ShownFrom(log_cnt - fromPos))
    /\ vpc = "oldtake" =>
          /\ batch \in Seq(Int)
          /\ \A n \in 1 .. Len(batch) : batch[n] = Oldest + i + Len(batch) - n + 1
          /\ Oldest + i + Len(batch) + fromPos < log_cnt
          /\ failed \/ ShownFrom(Oldest + i + Len(batch) + 1)
    /\ vpc = "oldsend" =>
          /\ batch \in Seq(Int) /\ Len(batch) >= 1
          /\ \A n \in 1 .. Len(batch) : batch[n] = batch[1] - n + 1
          /\ batch[1] >= 1
          /\ batch[1] + fromPos < log_cnt
          /\ failed \/ ShownFrom(batch[1] + 1)

\* New lines come one by one, each the oldest that the viewer does not have.
NewInv ==
    /\ vpc \in NewPlaces => (failed \/ ShownFrom(Oldest))
    /\ vpc \in {"newwalk", "newtake"} =>
          \/ /\ batch = << >> /\ Oldest + i > log_lastid
             /\ vpc = "newtake" => i = 0 \/ Oldest + i - 1 <= log_lastid
          \/ /\ batch = << Oldest + i + 1 >>
             /\ Oldest + i <= log_lastid /\ Oldest + i + 1 > log_lastid
    /\ vpc = "newsend" =>
          /\ batch \in Seq(Int) /\ Len(batch) = 1
          /\ batch[1] > log_lastid
          /\ batch[1] = log_lastid + 1 \/ batch[1] <= Oldest

ViewInv == ~raced => ViewTypes /\ WalkInv /\ OldInv /\ NewInv

LEMMA ViewInit == Init => ViewInv
<1> SUFFICES ASSUME Init
             PROVE  ViewInv
  OBVIOUS
<1>1. /\ vpc = "off" /\ log_lastid = 0 /\ fromPos = 0 /\ shown = {} /\ log_cnt = 1
  BY DEF Init
<1>2. ShownFrom(log_cnt - fromPos)
  BY <1>1 DEF ShownFrom
<1>3. ViewTypes
  BY <1>1 DEF ViewTypes
<1>4. WalkInv /\ OldInv /\ NewInv
  BY <1>1, <1>2 DEF WalkInv, Walking, OldInv, NewInv, NewPlaces
<1>5. QED
  BY <1>3, <1>4 DEF ViewInv

\* What the array holds when it is not being moved.
LEMMA Kept ==
    ASSUME RingInv
    PROVE  /\ Oldest \in Int /\ Oldest >= 1
           /\ log_cnt \in Nat /\ log_cnt >= 1 /\ LOG_POS \in Nat /\ Oldest = log_cnt - LOG_POS
           /\ (lpc = "shift" => si = 0) => \A k \in 0 .. LOG_POS - 1 : log[k] = Oldest + k
<1>1. LOG_SIZE \in Nat /\ LOG_SIZE >= 2
  BY LogAssumption
<1>2. /\ LOG_POS \in Nat /\ log_cnt \in Nat /\ log_cnt >= 1
      /\ lpc \in {"idle", "shift", "append"}
  BY DEF RingInv, TaskTypes
<1>3. CASE lpc = "idle"
  BY <1>1, <1>2, <1>3 DEF RingInv, RingIdle, Oldest
<1>4. CASE lpc = "append"
  BY <1>1, <1>2, <1>4 DEF RingInv, RingAppend, Oldest
<1>5. CASE lpc = "shift"
  BY <1>1, <1>2, <1>5 DEF RingInv, RingShift, Oldest
<1>6. QED
  BY <1>2, <1>3, <1>4, <1>5

\* The log task only ever forgets the oldest line, and unless it moves the array
\* under a walk the ids stay where they are.
LEMMA TaskMoves ==
    ASSUME RingInv, ViewTypes, WalkInv, Logged \/ Receive \/ Shift \/ AppendLine
    PROVE  /\ UNCHANGED << vpc, i, batch, fromPos, log_lastid, shown, failed >>
           /\ ~raced' => ~raced
           /\ log_cnt' >= log_cnt /\ Oldest' >= Oldest /\ log_cnt' \in Nat /\ Oldest' \in Int
           /\ Walking /\ ~raced' => /\ Oldest' = Oldest
                                    /\ LOG_POS' \in Nat /\ LOG_POS' >= LOG_POS
                                    /\ lpc' = "shift" => si' = 0
<1>1. LOG_SIZE \in Nat /\ LOG_SIZE >= 2
  BY LogAssumption
<1>2. /\ LOG_POS \in Nat /\ log_cnt \in Nat /\ si \in Slots /\ Oldest = log_cnt - LOG_POS
      /\ Oldest' = log_cnt' - LOG_POS'
  BY DEF RingInv, TaskTypes, Oldest
<1>3. CASE Logged
  <2>1. UNCHANGED << lpc, si, LOG_POS, log_cnt, vpc, i, batch, fromPos, log_lastid, shown, raced, failed >>
    BY <1>3, Zenon DEF Logged, hist
  <2>2. QED
    BY <1>2, <2>1 DEF WalkInv
<1>4. CASE Receive
  <2>1. /\ si' = 0
        /\ UNCHANGED << LOG_POS, log_cnt, vpc, i, batch, fromPos, log_lastid, shown, raced, failed >>
    BY <1>4, Zenon DEF Receive, hist
  <2>2. QED
    BY <1>2, <2>1
<1>5. CASE Shift
  <2>1. /\ log_cnt' = log_cnt
        /\ UNCHANGED << vpc, i, batch, fromPos, log_lastid, shown, failed >>
        /\ raced' = (raced \/ Walking)
    BY <1>5, Zenon DEF Shift
  <2>2. LOG_POS' = LOG_POS \/ LOG_POS' = LOG_POS - 1
    BY <1>5 DEF Shift, PosAfterDel
  <2>3. LOG_POS = LOG_SIZE - 1
    BY <1>5 DEF Shift, RingInv, RingShift
  <2>4. ~(Walking /\ ~raced') /\ (~raced' => ~raced)
    BY <2>1, Zenon
  <2>5. log_cnt' >= log_cnt /\ Oldest' >= Oldest /\ log_cnt' \in Nat /\ Oldest' \in Int
    BY <1>1, <1>2, <2>1, <2>2, <2>3
  <2>6. QED
    BY <2>1, <2>4, <2>5, Zenon
<1>6. CASE AppendLine
  <2>1. /\ LOG_POS' = LOG_POS + 1 /\ log_cnt' = log_cnt + 1 /\ lpc' = "idle"
        /\ UNCHANGED << vpc, i, batch, fromPos, log_lastid, shown, raced, failed >>
    BY <1>6, Zenon DEF AppendLine, hist
  <2>2. QED
    BY <1>2, <2>1
<1>7. QED
  BY <1>3, <1>4, <1>5, <1>6

LEMMA MinusKeepsOrder ==
    \A x, y, z \in Int : x <= y => x - z \in Int /\ y - z \in Int /\ x - z <= y - z
OBVIOUS

LEMMA PlaceOfId ==
    \A first, from, n, cnt, id \in Int :
        first + from < cnt /\ id <= first /\ id >= cnt - (from + n) => first - id + 1 \in 1 .. n
OBVIOUS

LEMMA TaskKeepsView ==
    ASSUME RingInv, ViewInv, Logged \/ Receive \/ Shift \/ AppendLine
    PROVE  ViewInv'
<1> SUFFICES ASSUME ~raced'
             PROVE  (ViewTypes /\ WalkInv /\ OldInv /\ NewInv)'
  BY DEF ViewInv
<1>1. ~raced
  BY DEF Logged, Receive, Shift, AppendLine, hist
<1>2. ViewTypes /\ WalkInv /\ OldInv /\ NewInv
  BY <1>1 DEF ViewInv
<1>3. /\ vpc' = vpc /\ i' = i /\ batch' = batch /\ fromPos' = fromPos
      /\ log_lastid' = log_lastid /\ shown' = shown /\ failed' = failed
      /\ log_cnt' >= log_cnt /\ Oldest' >= Oldest /\ log_cnt' \in Nat /\ Oldest' \in Int
      /\ Walking => /\ Oldest' = Oldest
                    /\ LOG_POS' \in Nat /\ LOG_POS' >= LOG_POS
                    /\ lpc' = "shift" => si' = 0
  BY <1>2, TaskMoves
<1>4. /\ log_cnt \in Nat /\ LOG_POS \in Nat /\ Oldest \in Int
      /\ log_lastid \in Nat /\ fromPos \in Nat
  BY <1>2, Kept DEF ViewTypes
<1>5. ASSUME NEW a \in Int, NEW b \in Int, a <= b, ShownFrom(a)
      PROVE  \A id \in b .. log_lastid : id \in shown
  BY <1>4, <1>5 DEF ShownFrom
<1>6. ViewTypes'
  BY <1>2, <1>3 DEF ViewTypes
<1>7. WalkInv'
  <2>1. CASE Walking
    BY <1>2, <1>3, <1>4, <2>1 DEF WalkInv, Walking
  <2>2. CASE ~Walking
    BY <1>3, <2>2 DEF WalkInv, Walking
  <2>3. QED
    BY <2>1, <2>2
<1>8. OldInv'
  <2>1. CASE vpc \in {"off", "old"}
    <3>1. failed \/ ShownFrom(log_cnt - fromPos)
      BY <1>2, <2>1 DEF OldInv
    <3>10. /\ log_cnt - fromPos \in Int /\ log_cnt' - fromPos \in Int
          /\ log_cnt - fromPos <= log_cnt' - fromPos
      <4>1. log_cnt' >= log_cnt /\ log_cnt' \in Nat
        BY <1>3, Zenon
      <4>2. /\ log_cnt \in Int /\ log_cnt' \in Int /\ fromPos \in Int /\ log_cnt <= log_cnt'
        BY <1>4, <4>1
      <4>3. QED
        BY <4>2, MinusKeepsOrder, Zenon
    <3>11. failed \/ \A id \in log_cnt' - fromPos .. log_lastid : id \in shown
      BY <1>5, <3>1, <3>10
    <3>2. failed' \/ ShownFrom(log_cnt - fromPos)'
      BY <1>3, <3>11 DEF ShownFrom
    <3>3. QED
      BY <1>3, <2>1, <3>2 DEF OldInv
  <2>2. CASE vpc = "oldtake"
    <3>1. /\ Walking /\ Oldest' = Oldest
      BY <1>3, <2>2 DEF Walking
    <3>2. i \in Int /\ batch \in Seq(Int) /\ Len(batch) \in Nat
      BY <1>2, <1>4, <2>2, <3>1 DEF WalkInv, OldInv
    <3>3. /\ \A n \in 1 .. Len(batch) : batch[n] = Oldest + i + Len(batch) - n + 1
          /\ Oldest + i + Len(batch) + fromPos < log_cnt
          /\ failed \/ ShownFrom(Oldest + i + Len(batch) + 1)
      BY <1>2, <2>2 DEF OldInv
    <3>4. failed' \/ ShownFrom(Oldest + i + Len(batch) + 1)'
      BY <1>3, <3>1, <3>3 DEF ShownFrom
    <3>5. /\ \A n \in 1 .. Len(batch) : batch[n] = Oldest' + i + Len(batch) - n + 1
          /\ Oldest' + i + Len(batch) + fromPos < log_cnt'
      BY <1>3, <1>4, <3>1, <3>2, <3>3
    <3>6. QED
      BY <1>3, <2>2, <3>2, <3>4, <3>5 DEF OldInv
  <2>3. CASE vpc = "oldsend"
    <3>1. /\ batch \in Seq(Int) /\ Len(batch) >= 1
          /\ \A n \in 1 .. Len(batch) : batch[n] = batch[1] - n + 1
          /\ batch[1] >= 1
          /\ batch[1] + fromPos < log_cnt
          /\ failed \/ ShownFrom(batch[1] + 1)
      BY <1>2, <2>3 DEF OldInv
    <3>2. batch[1] + fromPos < log_cnt'
      BY <1>3, <1>4, <3>1
    <3>3. failed' \/ ShownFrom(batch[1] + 1)'
      BY <1>3, <3>1 DEF ShownFrom
    <3>4. QED
      BY <1>3, <2>3, <3>1, <3>2, <3>3 DEF OldInv
  <2>4. CASE vpc \in NewPlaces
    BY <1>3, <2>4 DEF OldInv, NewPlaces
  <2>5. QED
    BY <1>2, <2>1, <2>2, <2>3, <2>4 DEF ViewTypes
<1>9. NewInv'
  <2>1. CASE vpc \notin NewPlaces
    BY <1>3, <2>1 DEF NewInv, NewPlaces
  <2>2. CASE vpc \in NewPlaces
    <3>1. failed \/ ShownFrom(Oldest)
      BY <1>2, <2>2 DEF NewInv
    <3>10. failed \/ \A id \in Oldest' .. log_lastid : id \in shown
      BY <1>3, <1>4, <1>5, <3>1
    <3>2. failed' \/ ShownFrom(Oldest)'
      BY <1>3, <3>10 DEF ShownFrom
    <3>3. CASE vpc \in {"newwalk", "newtake"}
      <4>1. Oldest' = Oldest
        BY <1>3, <3>3 DEF Walking
      <4>2. \/ /\ batch = << >> /\ Oldest + i > log_lastid
               /\ vpc = "newtake" => i = 0 \/ Oldest + i - 1 <= log_lastid
            \/ /\ batch = << Oldest + i + 1 >>
               /\ Oldest + i <= log_lastid /\ Oldest + i + 1 > log_lastid
        BY <1>2, <3>3 DEF NewInv
      <4>3. QED
        BY <1>3, <3>2, <3>3, <4>1, <4>2 DEF NewInv
    <3>4. CASE vpc = "newsend"
      <4>1. /\ batch \in Seq(Int) /\ Len(batch) = 1
            /\ batch[1] > log_lastid
            /\ batch[1] = log_lastid + 1 \/ batch[1] <= Oldest
        BY <1>2, <3>4 DEF NewInv
      <4>2. batch[1] \in Int
        BY <4>1
      <4>3. batch[1] = log_lastid + 1 \/ batch[1] <= Oldest'
        BY <1>3, <1>4, <4>1, <4>2
      <4>4. QED
        BY <1>3, <3>2, <3>4, <4>1, <4>3 DEF NewInv
    <3>5. CASE vpc = "new"
      BY <1>3, <3>2, <3>5 DEF NewInv
    <3>6. QED
      BY <2>2, <3>3, <3>4, <3>5 DEF NewPlaces
  <2>3. QED
    BY <2>1, <2>2
<1>10. QED
  BY <1>6, <1>7, <1>8, <1>9

\* Old lines descend, so the id kept by json_log_lastid is that of the first.
LEMMA LastOfDescending ==
    ASSUME batch \in Seq(Int), Len(batch) >= 1,
           \A n \in 1 .. Len(batch) : batch[n] = batch[1] - n + 1
    PROVE  LastId = batch[1]
<1>1. Len(batch) \in Nat /\ batch[1] \in Int
  OBVIOUS
<1>2. ASSUME NEW n \in Rising
      PROVE  n = 1
  <2>1. n \in 1 .. Len(batch) /\ \A m \in 1 .. n - 1 : batch[m] <= batch[m + 1]
    BY <1>2 DEF Rising
  <2>2. CASE n > 1
    <3>1. 1 \in 1 .. n - 1 /\ 2 \in 1 .. Len(batch)
      BY <1>1, <2>1, <2>2
    <3>2. batch[1] <= batch[2] /\ batch[2] = batch[1] - 1
      BY <1>1, <2>1, <3>1
    <3>3. QED
      BY <1>1, <3>2
  <2>3. QED
    BY <1>1, <2>1, <2>2
<1>3. 1 \in Rising
  BY <1>1 DEF Rising
<1>4. Rising = {1}
  BY <1>2, <1>3
<1>5. Cardinality(Rising) = 1
  BY <1>4, FS_Singleton
<1>6. QED
  BY <1>1, <1>5 DEF LastId

LEMMA OldKeepsView ==
    ASSUME RingInv, ViewInv,
           View \/ OldBegin \/ (\E full \in BOOLEAN : OldTake(full))
                \/ \E res \in {"ok", "busy", "fail"} : OldSend(res)
    PROVE  ViewInv'
<1> SUFFICES ASSUME ~raced'
             PROVE  (ViewTypes /\ WalkInv /\ OldInv /\ NewInv)'
  BY DEF ViewInv
<1>1. /\ ~raced
      /\ UNCHANGED << lpc, si, log, LOG_POS, log_cnt >>
  <2>1. CASE View
    BY <2>1, Zenon DEF View, hist, task
  <2>2. CASE OldBegin
    BY <2>2, Zenon DEF OldBegin, task
  <2>3. CASE \E full \in BOOLEAN : OldTake(full)
    <3>1. PICK full \in BOOLEAN : OldTake(full)
      BY <2>3, Zenon
    <3>2. QED
      BY <3>1, Zenon DEF OldTake, hist, task
  <2>4. CASE \E res \in {"ok", "busy", "fail"} : OldSend(res)
    <3>1. PICK res \in {"ok", "busy", "fail"} : OldSend(res)
      BY <2>4, Zenon
    <3>2. UNCHANGED << task, i, batch, raced >>
      BY <3>1, Zenon DEF OldSend
    <3>3. QED
      BY <3>2, Zenon DEF task
  <2>5. QED
    BY <2>1, <2>2, <2>3, <2>4
<1>2. ViewTypes /\ WalkInv /\ OldInv /\ NewInv
  BY <1>1 DEF ViewInv
<1>3. /\ log_cnt \in Nat /\ log_cnt >= 1 /\ LOG_POS \in Nat /\ Oldest \in Int /\ Oldest >= 1
      /\ Oldest = log_cnt - LOG_POS
      /\ log_lastid \in Nat /\ fromPos \in Nat
      /\ (lpc = "shift" => si = 0) => \A k \in 0 .. LOG_POS - 1 : log[k] = Oldest + k
  BY <1>2, Kept DEF ViewTypes
<1>4. Oldest' = Oldest
  BY <1>1 DEF Oldest
<1>5. CASE View
  <2>1. /\ vpc = "off" /\ vpc' = "old"
        /\ UNCHANGED << i, batch, fromPos, log_lastid, shown, failed >>
    BY <1>5, Zenon DEF View, hist
  <2>2. failed \/ ShownFrom(log_cnt - fromPos)
    BY <1>2, <2>1 DEF OldInv
  <2>3. failed' \/ ShownFrom(log_cnt - fromPos)'
    BY <1>1, <2>1, <2>2 DEF ShownFrom
  <2>4. ViewTypes'
    BY <1>2, <2>1 DEF ViewTypes
  <2>5. QED
    BY <2>1, <2>3, <2>4 DEF WalkInv, Walking, OldInv, NewInv, NewPlaces
<1>6. CASE OldBegin
  <2>1. /\ vpc = "old" /\ lpc # "shift"
        /\ UNCHANGED << fromPos, log_lastid, shown, failed >>
    BY <1>6, Zenon DEF OldBegin
  <2>2. /\ failed \/ ShownFrom(log_cnt - fromPos)
        /\ \A k \in 0 .. LOG_POS - 1 : log[k] = Oldest + k
        /\ OldStart = LOG_POS - fromPos - 1
    BY <1>2, <1>3, <2>1 DEF OldInv, OldStart
  <2>3. CASE OldStart < 0
    <3>1. vpc' = "new" /\ batch' = batch
      BY <1>6, <2>3, Zenon DEF OldBegin
    <3>2. log_cnt - fromPos <= Oldest
      BY <1>3, <2>2, <2>3
    <3>3. failed \/ ShownFrom(Oldest)
      BY <1>3, <2>2, <3>2 DEF ShownFrom
    <3>4. failed' \/ ShownFrom(Oldest)'
      BY <1>4, <2>1, <3>3 DEF ShownFrom
    <3>5. ViewTypes'
      BY <1>2, <2>1, <3>1 DEF ViewTypes, NewPlaces
    <3>6. QED
      BY <3>1, <3>4, <3>5 DEF WalkInv, Walking, OldInv, NewInv, NewPlaces
  <2>4. CASE ~(OldStart < 0)
    <3>1. OldStart \in 0 .. LOG_POS - 1
      BY <1>3, <2>2, <2>4
    <3>2. log[OldStart] = Oldest + OldStart
      BY <2>2, <3>1
    <3>3. ~(log[OldStart] <= 0)
      BY <1>3, <3>1, <3>2
    <3>4. vpc' = "oldtake" /\ i' = OldStart /\ batch' = << >>
      BY <1>6, <2>4, <3>3 DEF OldBegin
    <3>5. Oldest + OldStart + 1 = log_cnt - fromPos
      BY <1>3, <2>2
    <3>6. failed \/ ShownFrom(Oldest + OldStart + 1)
      BY <2>2, <3>5
    <3>7. failed' \/ ShownFrom(Oldest + i + Len(batch) + 1)'
      BY <1>3, <1>4, <2>1, <3>1, <3>4, <3>6 DEF ShownFrom
    <3>8. ViewTypes' /\ WalkInv'
      BY <1>1, <1>2, <2>1, <3>1, <3>4 DEF ViewTypes, WalkInv
    <3>9. (Oldest + i + Len(batch) + fromPos < log_cnt)'
      BY <1>1, <1>3, <1>4, <2>1, <3>1, <3>4, <3>5
    <3>10. OldInv'
      BY <3>4, <3>7, <3>9 DEF OldInv
    <3>11. QED
      BY <3>4, <3>8, <3>10 DEF NewInv, NewPlaces
  <2>5. QED
    BY <2>3, <2>4
<1>7. ASSUME NEW full \in BOOLEAN, OldTake(full)
      PROVE  (ViewTypes /\ WalkInv /\ OldInv /\ NewInv)'
  <2>1. /\ vpc = "oldtake" /\ batch' = Append(batch, log[i])
        /\ UNCHANGED << fromPos, log_lastid, shown, failed >>
    BY <1>7, Zenon DEF OldTake, hist
  <2>2. \/ vpc' = "oldsend" /\ i' = i
        \/ vpc' = "oldtake" /\ i' = i - 1 /\ i # 0
    BY <1>7, Zenon DEF OldTake
  <2>3. i \in 0 .. LOG_POS - 1 /\ log[i] = Oldest + i
    BY <1>2, <1>3, <2>1 DEF WalkInv, Walking
  <2>4. /\ batch \in Seq(Int) /\ Len(batch) \in Nat
        /\ \A n \in 1 .. Len(batch) : batch[n] = Oldest + i + Len(batch) - n + 1
        /\ Oldest + i + Len(batch) + fromPos < log_cnt
        /\ failed \/ ShownFrom(Oldest + i + Len(batch) + 1)
    BY <1>2, <2>1 DEF OldInv
  <2>5. /\ batch' \in Seq(Int) /\ Len(batch') = Len(batch) + 1
        /\ \A n \in 1 .. Len(batch) : batch'[n] = batch[n]
        /\ batch'[Len(batch) + 1] = Oldest + i
    BY <1>3, <2>1, <2>3, <2>4
  <2>6. \A n \in 1 .. Len(batch') : batch'[n] = Oldest + i + Len(batch) - n + 1
    <3>1. ASSUME NEW n \in 1 .. Len(batch')
          PROVE  batch'[n] = Oldest + i + Len(batch) - n + 1
      <4>1. n \in 1 .. Len(batch) \/ n = Len(batch) + 1
        BY <2>4, <2>5
      <4>2. CASE n \in 1 .. Len(batch)
        BY <2>4, <2>5, <4>2
      <4>3. CASE n = Len(batch) + 1
        BY <1>3, <2>3, <2>4, <2>5, <4>3
      <4>4. QED
        BY <4>1, <4>2, <4>3
    <3>2. QED
      BY <3>1
  <2>7. ViewTypes'
    BY <1>2, <2>1, <2>2 DEF ViewTypes
  <2>8. CASE vpc' = "oldsend" /\ i' = i
    <3>1. batch'[1] = Oldest + i + Len(batch) /\ Len(batch') >= 1
      BY <1>3, <2>3, <2>4, <2>5, <2>6
    <3>2. \A n \in 1 .. Len(batch') : batch'[n] = batch'[1] - n + 1
      BY <1>3, <2>3, <2>4, <2>5, <2>6, <3>1
    <3>3. batch'[1] >= 1 /\ batch'[1] + fromPos < log_cnt
      BY <1>3, <2>3, <2>4, <3>1
    <3>4. failed' \/ ShownFrom(batch[1] + 1)'
      BY <2>1, <2>4, <3>1 DEF ShownFrom
    <3>5. OldInv'
      BY <1>1, <2>1, <2>5, <2>8, <3>1, <3>2, <3>3, <3>4 DEF OldInv
    <3>6. QED
      BY <2>7, <2>8, <3>5 DEF WalkInv, Walking, NewInv, NewPlaces
  <2>9. CASE vpc' = "oldtake" /\ i' = i - 1 /\ i # 0
    <3>1. i' \in 0 .. LOG_POS - 1 /\ i' + Len(batch') = i + Len(batch)
      BY <1>3, <2>3, <2>4, <2>5, <2>9
    <3>2. /\ Oldest + i + Len(batch) = Oldest' + i' + Len(batch')
          /\ Len(batch') \in Nat /\ i' \in Int
      BY <1>3, <1>4, <2>3, <2>4, <2>5, <2>9
    <3>3. failed' \/ ShownFrom(Oldest + i + Len(batch) + 1)'
      BY <2>1, <2>4, <3>2 DEF ShownFrom
    <3>4. \A n \in 1 .. Len(batch') : batch'[n] = Oldest' + i' + Len(batch') - n + 1
      <4>1. PICK last \in Int : /\ last = Oldest + i + Len(batch)
                                /\ last = Oldest' + i' + Len(batch')
        BY <1>3, <2>3, <2>4, <3>2
      <4>2. \A n \in 1 .. Len(batch') : batch'[n] = last - n + 1
        BY <1>3, <2>3, <2>4, <2>5, <2>6, <4>1
      <4>3. Oldest' \in Int /\ i' \in Int /\ Len(batch') \in Int
        BY <1>3, <1>4, <3>2
      <4>4. ASSUME NEW n \in 1 .. Len(batch')
            PROVE  batch'[n] = Oldest' + i' + Len(batch') - n + 1
        <5>1. n \in Int /\ batch'[n] = last - n + 1
          BY <4>2
        <5>2. last - n + 1 = Oldest' + i' + Len(batch') - n + 1
          BY <4>1, <4>3, <5>1
        <5>3. QED
          BY <5>1, <5>2, Zenon
      <4>5. QED
        BY <4>4
    <3>5. Oldest' + i' + Len(batch') + fromPos' < log_cnt'
      BY <1>1, <2>1, <2>4, <3>2
    <3>6. OldInv'
      BY <2>5, <2>9, <3>3, <3>4, <3>5 DEF OldInv
    <3>7. WalkInv'
      BY <1>1, <1>2, <2>1, <3>1 DEF WalkInv, Walking
    <3>8. QED
      BY <2>7, <2>9, <3>6, <3>7 DEF NewInv, NewPlaces
  <2>10. QED
    BY <2>2, <2>8, <2>9
<1>8. ASSUME NEW res \in {"ok", "busy", "fail"}, OldSend(res)
      PROVE  (ViewTypes /\ WalkInv /\ OldInv /\ NewInv)'
  <2>1. vpc = "oldsend" /\ UNCHANGED << i, batch >>
    BY <1>8, Zenon DEF OldSend
  <2>2. /\ batch \in Seq(Int) /\ Len(batch) \in Nat /\ Len(batch) >= 1
        /\ batch[1] \in Int
        /\ \A n \in 1 .. Len(batch) : batch[n] = batch[1] - n + 1
        /\ batch[1] >= 1
        /\ batch[1] + fromPos < log_cnt
        /\ failed \/ ShownFrom(batch[1] + 1)
    BY <1>2, <2>1 DEF OldInv
  <2>3. LastId = batch[1] /\ IdAfter = IF batch[1] > log_lastid THEN batch[1] ELSE log_lastid
    BY <2>2, LastOfDescending DEF IdAfter
  <2>4. CASE res = "busy"
    <3>1. vpc' = "old" /\ UNCHANGED << fromPos, log_lastid, shown, failed >>
      BY <1>8, <2>4 DEF OldSend
    <3>2. log_cnt - fromPos \in Int /\ batch[1] + 1 <= log_cnt - fromPos
      BY <1>3, <2>2
    <3>3. failed \/ ShownFrom(log_cnt - fromPos)
      BY <1>3, <2>2, <3>2 DEF ShownFrom
    <3>4. failed' \/ ShownFrom(log_cnt - fromPos)'
      BY <1>1, <3>1, <3>3 DEF ShownFrom
    <3>5. ViewTypes'
      BY <1>2, <3>1 DEF ViewTypes
    <3>6. QED
      BY <3>1, <3>4, <3>5 DEF WalkInv, Walking, OldInv, NewInv, NewPlaces
  <2>5. CASE res = "fail"
    <3>1. vpc' = "new" /\ failed' /\ UNCHANGED << fromPos, log_lastid, shown >>
      BY <1>8, <2>5 DEF OldSend
    <3>2. ViewTypes'
      BY <1>2, <3>1 DEF ViewTypes, NewPlaces
    <3>3. QED
      BY <3>1, <3>2 DEF WalkInv, Walking, OldInv, NewInv, NewPlaces
  <2>6. CASE res = "ok"
    <3>1. /\ vpc' = "old" /\ fromPos' = fromPos + Len(batch) /\ log_lastid' = IdAfter
          /\ shown' = shown \cup Sent /\ failed' = failed
      BY <1>8, <2>2, <2>3, <2>6 DEF OldSend, FromPosAfter
    <3>2. log_lastid' \in Nat /\ log_lastid' >= log_lastid /\ log_lastid' >= batch[1]
      BY <1>3, <2>2, <2>3, <3>1
    <3>3. \A id \in Sent : id \in Int /\ id <= batch[1]
      <4>1. ASSUME NEW n \in 1 .. Len(batch)
            PROVE  batch[n] \in Int /\ batch[n] <= batch[1]
        BY <2>2
      <4>2. QED
        BY <4>1, Zenon DEF Sent
    <3>4. ViewTypes'
      <4>1. ASSUME NEW id \in shown'
            PROVE  id \in Int /\ id <= log_lastid'
        <5>1. CASE id \in shown
          BY <1>2, <1>3, <3>2, <5>1 DEF ViewTypes
        <5>2. CASE id \in Sent
          BY <2>2, <3>2, <3>3, <5>2
        <5>3. QED
          BY <3>1, <4>1, <5>1, <5>2
      <4>2. QED
        BY <1>3, <2>2, <3>1, <3>2, <4>1 DEF ViewTypes
    <3>5. ASSUME ~failed, NEW id \in log_cnt - fromPos' .. log_lastid'
          PROVE  id \in shown'
      <4>1. /\ id \in Int /\ id >= log_cnt - (fromPos + Len(batch)) /\ id <= log_lastid'
        BY <1>3, <2>2, <3>1, <3>2, <3>5
      <4>2. CASE id <= batch[1]
        <5>1. batch[1] - id + 1 \in 1 .. Len(batch)
          <6>1. batch[1] + fromPos < log_cnt /\ batch[1] \in Int /\ Len(batch) \in Nat
            BY <2>2
          <6>2. log_cnt \in Int /\ fromPos \in Int
            BY <1>3
          <6>3. id \in Int /\ id <= batch[1] /\ id >= log_cnt - (fromPos + Len(batch))
            BY <4>1, <4>2
          <6>4. QED
            BY <6>1, <6>2, <6>3, PlaceOfId
        <5>2. batch[batch[1] - id + 1] = batch[1] - (batch[1] - id + 1) + 1
          BY <2>2, <5>1
        <5>3. batch[batch[1] - id + 1] = id
          BY <2>2, <4>1, <5>2
        <5>4. QED
          BY <3>1, <5>1, <5>3 DEF Sent
      <4>3. CASE id > batch[1]
        <5>1. id \in batch[1] + 1 .. log_lastid
          BY <1>3, <2>2, <2>3, <3>1, <4>1, <4>3
        <5>2. QED
          BY <2>2, <3>1, <3>5, <5>1 DEF ShownFrom
      <4>4. QED
        BY <2>2, <4>1, <4>2, <4>3
    <3>6. failed' \/ ShownFrom(log_cnt - fromPos)'
      BY <1>1, <3>1, <3>5 DEF ShownFrom
    <3>7. QED
      BY <3>1, <3>4, <3>6 DEF WalkInv, Walking, OldInv, NewInv, NewPlaces
  <2>7. QED
    BY <1>8, <2>4, <2>5, <2>6
<1>9. QED
  BY <1>5, <1>6, <1>7, <1>8

LEMMA NewKeepsView ==
    ASSUME RingInv, ViewInv,
           NewBegin \/ NewWalk \/ (\E full \in BOOLEAN : NewTake(full))
                    \/ \E res \in {"ok", "busy", "fail"} : NewSend(res)
    PROVE  ViewInv'
<1> SUFFICES ASSUME ~raced'
             PROVE  (ViewTypes /\ WalkInv /\ OldInv /\ NewInv)'
  BY DEF ViewInv
<1>1. /\ ~raced
      /\ UNCHANGED << lpc, si, log, LOG_POS, log_cnt, failed >>
  <2>1. CASE NewBegin
    BY <2>1, Zenon DEF NewBegin, task
  <2>2. CASE NewWalk
    BY <2>2, Zenon DEF NewWalk, hist, task
  <2>3. CASE \E full \in BOOLEAN : NewTake(full)
    <3>1. PICK full \in BOOLEAN : NewTake(full)
      BY <2>3, Zenon
    <3>2. QED
      BY <3>1, Zenon DEF NewTake, hist, task
  <2>4. CASE \E res \in {"ok", "busy", "fail"} : NewSend(res)
    <3>1. PICK res \in {"ok", "busy", "fail"} : NewSend(res)
      BY <2>4, Zenon
    <3>2. UNCHANGED << task, i, batch, raced, failed >>
      BY <3>1, Zenon DEF NewSend
    <3>3. QED
      BY <3>2, Zenon DEF task
  <2>5. QED
    BY <2>1, <2>2, <2>3, <2>4
<1>2. ViewTypes /\ WalkInv /\ OldInv /\ NewInv
  BY <1>1 DEF ViewInv
<1>3. /\ log_cnt \in Nat /\ log_cnt >= 1 /\ LOG_POS \in Nat /\ Oldest \in Int /\ Oldest >= 1
      /\ Oldest = log_cnt - LOG_POS
      /\ log_lastid \in Nat /\ fromPos \in Nat
      /\ (lpc = "shift" => si = 0) => \A k \in 0 .. LOG_POS - 1 : log[k] = Oldest + k
  BY <1>2, Kept DEF ViewTypes
<1>4. Oldest' = Oldest
  BY <1>1 DEF Oldest
<1>5. vpc \in NewPlaces => (failed \/ ShownFrom(Oldest))
  BY <1>2 DEF NewInv
<1>6. CASE NewBegin
  <2>1. vpc = "new" /\ lpc # "shift" /\ UNCHANGED << log_lastid, shown >>
    BY <1>6, Zenon DEF NewBegin
  <2>2. failed' \/ ShownFrom(Oldest)'
    BY <1>1, <1>4, <1>5, <2>1 DEF ShownFrom, NewPlaces
  <2>3. CASE vpc' = Pass /\ fromPos' = 0
    <3>1. (vpc' = "old" /\ log_lastid' = 0) \/ vpc' = "new"
      BY <2>3 DEF Pass
    <3>2. ViewTypes'
      BY <1>2, <2>1, <2>3, <3>1 DEF ViewTypes, NewPlaces
    <3>3. vpc' = "old" => ShownFrom(log_cnt - fromPos)'
      BY <1>1, <1>3, <2>3, <3>1 DEF ShownFrom
    <3>4. QED
      BY <2>2, <3>1, <3>2, <3>3 DEF WalkInv, Walking, OldInv, NewInv, NewPlaces
  <2>4. CASE ~(vpc' = Pass /\ fromPos' = 0)
    <3>1. /\ ~(LOG_POS = 0)
          /\ ~(log[LOG_POS - 1] <= log_lastid)
          /\ vpc' = "newwalk" /\ i' = LOG_POS - 1 /\ batch' = << >>
          /\ fromPos' = fromPos
      BY <1>6, <2>4 DEF NewBegin
    <3>2. i' \in 0 .. LOG_POS - 1 /\ log[LOG_POS - 1] = Oldest + i'
      BY <1>3, <2>1, <3>1
    <3>3. Oldest + i' > log_lastid
      BY <1>3, <3>1, <3>2
    <3>4. ViewTypes' /\ WalkInv'
      BY <1>1, <1>2, <2>1, <3>1, <3>2 DEF ViewTypes, WalkInv, NewPlaces
    <3>5. NewInv'
      BY <1>4, <2>1, <2>2, <3>1, <3>3 DEF NewInv
    <3>6. QED
      BY <3>1, <3>4, <3>5 DEF OldInv
  <2>5. QED
    BY <2>3, <2>4
<1>7. ASSUME vpc \in {"newwalk", "newtake"}
      PROVE  /\ i \in 0 .. LOG_POS - 1
             /\ \A k \in 0 .. LOG_POS - 1 : log[k] = Oldest + k
             /\ lpc = "shift" => si = 0
  BY <1>2, <1>3, <1>7 DEF WalkInv, Walking
<1>8. CASE NewWalk
  <2>1. /\ vpc = "newwalk"
        /\ UNCHANGED << batch, fromPos, log_lastid, shown >>
        /\ IF OlderIsNew THEN i' = i - 1 /\ vpc' = vpc ELSE vpc' = "newtake" /\ i' = i
    BY <1>8, Zenon DEF NewWalk, hist
  <2>2. /\ i \in 0 .. LOG_POS - 1
        /\ lpc = "shift" => si = 0
        /\ i >= 1 => log[i - 1] = Oldest + i - 1
    BY <1>3, <1>7, <2>1
  <2>3. failed' \/ ShownFrom(Oldest)'
    BY <1>1, <1>4, <1>5, <2>1 DEF ShownFrom, NewPlaces
  <2>4. ViewTypes' /\ OldInv'
    BY <1>2, <2>1 DEF ViewTypes, OldInv, NewPlaces
  <2>5. \/ batch = << >> /\ Oldest + i > log_lastid
        \/ /\ batch = << Oldest + i + 1 >>
           /\ Oldest + i <= log_lastid /\ Oldest + i + 1 > log_lastid
    BY <1>2, <2>1 DEF NewInv
  <2>6. CASE OlderIsNew
    <3>1. i >= 1 /\ log[i - 1] > log_lastid /\ i' = i - 1 /\ vpc' = "newwalk"
      BY <2>1, <2>6 DEF OlderIsNew
    <3>2. /\ Oldest + i - 1 > log_lastid /\ i' \in 0 .. LOG_POS - 1
          /\ Oldest + i' > log_lastid
      BY <1>3, <2>2, <3>1
    <3>3. batch = << >>
      BY <1>3, <2>2, <2>5, <3>2
    <3>4. NewInv'
      BY <1>4, <2>1, <2>3, <3>1, <3>2, <3>3 DEF NewInv
    <3>5. WalkInv'
      BY <1>1, <2>2, <3>2 DEF WalkInv
    <3>6. QED
      BY <2>4, <3>4, <3>5
  <2>7. CASE ~OlderIsNew
    <3>1. i' = i /\ vpc' = "newtake"
      BY <2>1, <2>7
    <3>2. i = 0 \/ ~(log[i - 1] > log_lastid)
      BY <1>3, <2>2, <2>7 DEF OlderIsNew
    <3>3. i = 0 \/ Oldest + i - 1 <= log_lastid
      BY <1>3, <2>2, <3>2
    <3>4. NewInv'
      BY <1>4, <2>1, <2>3, <2>5, <3>1, <3>3 DEF NewInv
    <3>5. WalkInv'
      BY <1>1, <2>2, <3>1 DEF WalkInv
    <3>6. QED
      BY <2>4, <3>4, <3>5
  <2>8. QED
    BY <2>6, <2>7
<1>9. ASSUME NEW full \in BOOLEAN, NewTake(full)
      PROVE  (ViewTypes /\ WalkInv /\ OldInv /\ NewInv)'
  <2> DEFINE stop == batch # << >> /\ (log[i] <= log_lastid \/ full)
  <2>1. /\ vpc = "newtake"
        /\ UNCHANGED << fromPos, log_lastid, shown >>
        /\ batch' = IF stop THEN batch ELSE Append(batch, log[i])
        /\ IF stop \/ i = 0 THEN vpc' = "newsend" /\ i' = i
                            ELSE vpc' = "newwalk" /\ i' = i - 1
    BY <1>9, Zenon DEF NewTake, hist
  <2>2. /\ i \in 0 .. LOG_POS - 1
        /\ lpc = "shift" => si = 0
        /\ log[i] = Oldest + i
    BY <1>3, <1>7, <2>1
  <2>3. failed' \/ ShownFrom(Oldest)'
    BY <1>1, <1>4, <1>5, <2>1 DEF ShownFrom, NewPlaces
  <2>4. vpc' \in {"newsend", "newwalk"}
    BY <2>1, Zenon
  <2>5. ViewTypes' /\ OldInv'
    BY <1>2, <2>1, <2>4 DEF ViewTypes, OldInv, NewPlaces
  <2>6. CASE batch = << >> /\ Oldest + i > log_lastid
    <3>1. i = 0 \/ Oldest + i - 1 <= log_lastid
      <4>1. Oldest + i > log_lastid /\ ~(Oldest + i <= log_lastid)
        BY <1>3, <2>2, <2>6
      <4>2. QED
        BY <1>2, <2>1, <4>1 DEF NewInv
    <3>2. batch' = << Oldest + i >>
      BY <2>1, <2>2, <2>6
    <3>3. CASE i = 0
      <4>1. vpc' = "newsend"
        BY <2>1, <3>3
      <4>2. batch' \in Seq(Int) /\ Len(batch') = 1 /\ batch'[1] = Oldest
        BY <1>3, <3>2, <3>3
      <4>3. NewInv'
        BY <1>3, <1>4, <2>1, <2>3, <2>6, <3>3, <4>1, <4>2 DEF NewInv
      <4>4. QED
        BY <2>5, <4>1, <4>3 DEF WalkInv, Walking
    <3>4. CASE i # 0
      <4>1. vpc' = "newwalk" /\ i' = i - 1
        BY <2>1, <2>6, <3>4
      <4>2. /\ i' \in 0 .. LOG_POS - 1
            /\ Oldest + i' + 1 = Oldest + i /\ Oldest + i' <= log_lastid
            /\ Oldest + i' + 1 > log_lastid
        BY <1>3, <2>2, <2>6, <3>1, <3>4, <4>1
      <4>3. batch' = << Oldest + i' + 1 >>
        BY <3>2, <4>2
      <4>4. NewInv'
        BY <1>4, <2>1, <2>3, <4>1, <4>2, <4>3 DEF NewInv
      <4>5. WalkInv'
        BY <1>1, <2>2, <4>2 DEF WalkInv
      <4>6. QED
        BY <2>5, <4>4, <4>5
    <3>5. QED
      BY <3>3, <3>4
  <2>7. CASE /\ batch = << Oldest + i + 1 >>
             /\ Oldest + i <= log_lastid /\ Oldest + i + 1 > log_lastid
    <3>1. batch' = batch /\ vpc' = "newsend"
      BY <2>1, <2>2, <2>7
    <3>2. /\ batch' \in Seq(Int) /\ Len(batch') = 1 /\ batch'[1] = Oldest + i + 1
          /\ batch'[1] = log_lastid + 1
      BY <1>3, <2>2, <2>7, <3>1
    <3>3. NewInv'
      BY <1>3, <2>1, <2>3, <3>1, <3>2 DEF NewInv
    <3>4. QED
      BY <2>5, <3>1, <3>3 DEF WalkInv, Walking
  <2>8. QED
    BY <1>2, <2>1, <2>6, <2>7 DEF NewInv
<1>10. ASSUME NEW res \in {"ok", "busy", "fail"}, NewSend(res)
       PROVE  (ViewTypes /\ WalkInv /\ OldInv /\ NewInv)'
  <2>1. /\ vpc = "newsend" /\ UNCHANGED << i, batch >>
        /\ (vpc' = Pass /\ fromPos' = 0) \/ (vpc' = "new" /\ fromPos' = fromPos)
    BY <1>10, Zenon DEF NewSend
  <2>2. /\ batch \in Seq(Int) /\ Len(batch) = 1 /\ batch[1] \in Int
        /\ batch[1] > log_lastid
        /\ batch[1] = log_lastid + 1 \/ batch[1] <= Oldest
    BY <1>2, <2>1 DEF NewInv
  <2>3. Sent = {batch[1]}
    BY <2>2 DEF Sent
  <2>4. LastId = batch[1]
    BY <2>2, LastOfDescending
  <2>5. failed \/ ShownFrom(Oldest)
    BY <1>5, <2>1 DEF NewPlaces
  <2>6. /\ (failed' \/ ShownFrom(Oldest)')
        /\ log_lastid' \in Nat
        /\ \A id \in shown' : id \in Int /\ id <= log_lastid'
    <3>1. CASE res = "ok"
      <4>1. log_lastid' = batch[1] /\ shown' = shown \cup {batch[1]}
        BY <1>10, <2>2, <2>3, <2>4, <3>1 DEF NewSend, IdAfter
      <4>2. ASSUME ~failed, NEW id \in Oldest .. batch[1]
            PROVE  id \in shown'
        <5>1. id = batch[1] \/ id \in Oldest .. log_lastid
          BY <1>3, <2>2, <4>2
        <5>2. QED
          BY <2>5, <4>1, <4>2, <5>1 DEF ShownFrom
      <4>3. failed' \/ ShownFrom(Oldest)'
        BY <1>1, <1>4, <4>1, <4>2 DEF ShownFrom
      <4>4. \A id \in shown : id \in Int /\ id <= log_lastid
        BY <1>2 DEF ViewTypes
      <4>5. QED
        BY <1>3, <2>2, <4>1, <4>3, <4>4
    <3>2. CASE res # "ok"
      <4>1. UNCHANGED << log_lastid, shown >>
        BY <1>10, <3>2, Zenon DEF NewSend
      <4>2. QED
        BY <1>1, <1>2, <1>4, <2>5, <4>1 DEF ViewTypes, ShownFrom
    <3>3. QED
      BY <3>1, <3>2
  <2>7. (vpc' = "old" /\ log_lastid' = 0 /\ fromPos' = 0) \/ vpc' = "new"
    BY <2>1 DEF Pass
  <2>8. ViewTypes'
    BY <1>3, <2>1, <2>6, <2>7 DEF ViewTypes, NewPlaces
  <2>9. vpc' = "old" => ShownFrom(log_cnt - fromPos)'
    BY <1>1, <1>3, <2>7 DEF ShownFrom
  <2>10. QED
    BY <2>6, <2>7, <2>8, <2>9 DEF WalkInv, Walking, OldInv, NewInv, NewPlaces
<1>11. QED
  BY <1>6, <1>8, <1>9, <1>10

LEMMA ViewStep == RingInv /\ ViewInv /\ [Next]_vars => ViewInv'
<1> SUFFICES ASSUME RingInv, ViewInv, [Next]_vars
             PROVE  ViewInv'
  OBVIOUS
<1>1. CASE Logged \/ Receive \/ Shift \/ AppendLine
  BY <1>1, TaskKeepsView
<1>2. CASE Viewer
  <2>1. CASE View \/ OldBegin \/ (\E full \in BOOLEAN : OldTake(full))
                  \/ \E res \in {"ok", "busy", "fail"} : OldSend(res)
    BY <2>1, OldKeepsView
  <2>2. CASE NewBegin \/ NewWalk \/ (\E full \in BOOLEAN : NewTake(full))
                      \/ \E res \in {"ok", "busy", "fail"} : NewSend(res)
    BY <2>2, NewKeepsView
  <2>3. QED
    BY <1>2, <2>1, <2>2, Zenon DEF Viewer
<1>3. CASE UNCHANGED vars
  <2>1. UNCHANGED << lpc, si, LOG_POS, log_cnt, vpc, i, batch, fromPos, log_lastid, shown,
                     raced, failed >>
    BY <1>3, Zenon DEF vars, task, hist
  <2>2. QED
    BY <2>1 DEF ViewInv, ViewTypes, WalkInv, Walking, OldInv, NewInv, ShownFrom, Oldest
<1>4. QED
  BY <1>1, <1>2, <1>3 DEF Next

-----------------------------------------------------------------------------
(* The old lines that are sent again.  Each page begins where fromPos says from the  *)
(* end; a line appended since then moves the end, and with it the page, by one.  So    *)
(* what has been repeated, together with what the pages still to come overlap, is at    *)
(* most what was appended.                                                        *)

OldPlaces == {"off", "old", "oldtake", "oldsend"}

RepeatTypes == begun \in Nat /\ repeated \in Nat

\* Nothing is repeated before something is shown.
FirstShown ==
    /\ log_lastid = 0 => shown = {}
    /\ shown = {} => repeated = 0
    /\ (vpc \in OldPlaces /\ fromPos = 0) => shown = {}

\* What can still overlap, by the lines shown and by the page in hand.
Overlap ==
    /\ vpc \in OldPlaces => \A id \in shown : repeated + begun <= fromPos + id
    /\ vpc = "oldtake" => repeated + begun <= Oldest + i + Len(batch) + fromPos + 1
    /\ vpc = "oldsend" => repeated + begun <= batch[1] + fromPos + 1

RepeatInv ==
    ~ raced => /\ RepeatTypes
               /\ repeated + begun <= log_cnt
               /\ FirstShown
               /\ Overlap

LEMMA RepeatInit == Init => RepeatInv
<1> SUFFICES ASSUME Init
             PROVE  RepeatInv
  OBVIOUS
<1>1. /\ vpc = "off" /\ log_lastid = 0 /\ fromPos = 0 /\ shown = {} /\ log_cnt = 1
      /\ begun = log_cnt /\ repeated = 0
  BY DEF Init
<1>2. QED
  BY <1>1 DEF RepeatInv, RepeatTypes, FirstShown, Overlap

\* A set of integers between two bounds has at most as many elements as there are.
LEMMA WithinBounds ==
    ASSUME NEW S, NEW a \in Int, NEW b \in Int, S \subseteq a .. b, a <= b + 1
    PROVE  IsFiniteSet(S) /\ Cardinality(S) \in Nat /\ Cardinality(S) <= b - a + 1
<1>1. IsFiniteSet(a .. b) /\ Cardinality(a .. b) = IF a > b THEN 0 ELSE b - a + 1
  BY FS_Interval
<1>2. IsFiniteSet(S) /\ Cardinality(S) <= Cardinality(a .. b)
  BY <1>1, FS_Subset
<1>3. Cardinality(S) \in Nat
  BY <1>2, FS_CardinalityType
<1>4. QED
  BY <1>1, <1>2, <1>3

\* The page that is sent: what it repeats is within what could overlap.
LEMMA PageRepeats ==
    ASSUME NEW first \in Int, NEW n \in Nat, NEW from \in Nat, NEW rep \in Nat, NEW beg \in Nat,
           NEW page, NEW old,
           page \subseteq first - n + 1 .. first,
           \A id \in old : id \in Int /\ rep + beg <= from + id,
           rep + beg <= first + from + 1
    PROVE  /\ Cardinality(page \cap old) \in Nat
           /\ Cardinality(page \cap old) <= n
           /\ rep + Cardinality(page \cap old) + beg <= first + from + 1
<1>1. /\ page \cap old \subseteq first - n + 1 .. first
      /\ first - n + 1 \in Int /\ first - n + 1 <= first + 1
      /\ first - (first - n + 1) + 1 = n
  OBVIOUS
<1>2. Cardinality(page \cap old) \in Nat /\ Cardinality(page \cap old) <= n
  BY <1>1, WithinBounds
<1>3. page \cap old \subseteq rep + beg - from .. first
  OBVIOUS
<1>4. /\ rep + beg - from \in Int /\ rep + beg - from <= first + 1
      /\ first - (rep + beg - from) + 1 = first + from + 1 - rep - beg
  OBVIOUS
<1>5. Cardinality(page \cap old) <= first + from + 1 - rep - beg
  BY <1>3, <1>4, WithinBounds
<1>6. QED
  BY <1>2, <1>5

\* Steps that show nothing.
LEMMA NothingShown ==
    ASSUME RingInv, RepeatInv, ~ raced,
           UNCHANGED << begun, repeated, shown, log_lastid >>,
           log_cnt' \in Nat, log_cnt' >= log_cnt,
           vpc' \in OldPlaces => vpc \in OldPlaces /\ fromPos' = fromPos,
           vpc' = "oldtake" =>
               vpc = "oldtake" /\ Oldest' + i' + Len(batch') = Oldest + i + Len(batch),
           vpc' = "oldsend" =>
               \/ vpc = "oldsend" /\ batch' = batch
               \/ vpc = "oldtake" /\ batch'[1] = Oldest + i + Len(batch)
    PROVE  RepeatInv'
<1>1. /\ begun \in Nat /\ repeated \in Nat /\ log_cnt \in Nat
      /\ repeated + begun <= log_cnt
      /\ FirstShown /\ Overlap
  BY DEF RepeatInv, RepeatTypes, RingInv, TaskTypes
<1>2. RepeatTypes' /\ (repeated + begun <= log_cnt)'
  BY <1>1 DEF RepeatTypes
<1>3. FirstShown'
  BY <1>1, Zenon DEF FirstShown
<1>4. vpc' \in OldPlaces => \A id \in shown' : repeated' + begun' <= fromPos' + id
  BY <1>1, Zenon DEF Overlap
<1>5. vpc' = "oldtake" => repeated' + begun' <= Oldest' + i' + Len(batch') + fromPos' + 1
  <2>1. SUFFICES ASSUME vpc' = "oldtake"
                 PROVE  repeated' + begun' <= Oldest' + i' + Len(batch') + fromPos' + 1
    OBVIOUS
  <2>2. /\ vpc = "oldtake" /\ fromPos' = fromPos
        /\ Oldest' + i' + Len(batch') = Oldest + i + Len(batch)
    BY <2>1 DEF OldPlaces
  <2>3. repeated + begun <= Oldest + i + Len(batch) + fromPos + 1
    BY <1>1, <2>2, Zenon DEF Overlap
  <2>4. QED
    BY <2>2, <2>3, Zenon
<1>6. vpc' = "oldsend" => repeated' + begun' <= batch'[1] + fromPos' + 1
  <2>1. SUFFICES ASSUME vpc' = "oldsend"
                 PROVE  repeated' + begun' <= batch'[1] + fromPos' + 1
    OBVIOUS
  <2>2. fromPos' = fromPos
    BY <2>1 DEF OldPlaces
  <2>3. CASE vpc = "oldsend" /\ batch' = batch
    BY <1>1, <2>2, <2>3, Zenon DEF Overlap
  <2>4. CASE vpc = "oldtake" /\ batch'[1] = Oldest + i + Len(batch)
    BY <1>1, <2>2, <2>4, Zenon DEF Overlap
  <2>5. QED
    BY <2>1, <2>3, <2>4
<1>7. QED
  BY <1>2, <1>3, <1>4, <1>5, <1>6, Zenon DEF RepeatInv, Overlap

LEMMA RepeatStep == RingInv /\ ViewInv /\ RepeatInv /\ [Next]_vars => RepeatInv'
<1> SUFFICES ASSUME RingInv, ViewInv, RepeatInv, [Next]_vars, ~ raced'
             PROVE  RepeatInv'
  BY DEF RepeatInv
<1>1. ~ raced
  <2>1. CASE Logged \/ Receive \/ Shift \/ AppendLine
    BY <2>1, Zenon DEF Logged, Receive, Shift, AppendLine, hist
  <2>2. CASE View \/ NewWalk
    BY <2>2, Zenon DEF View, NewWalk, hist
  <2>3. CASE OldBegin \/ NewBegin
    BY <2>3, Zenon DEF OldBegin, NewBegin
  <2>4. CASE \E full \in BOOLEAN : OldTake(full) \/ NewTake(full)
    BY <2>4, Zenon DEF OldTake, NewTake, hist
  <2>5. CASE \E res \in {"ok", "busy", "fail"} : OldSend(res) \/ NewSend(res)
    <3>1. PICK res \in {"ok", "busy", "fail"} : OldSend(res) \/ NewSend(res)
      BY <2>5, Zenon
    <3>2. UNCHANGED raced
      BY <3>1, Zenon DEF OldSend, NewSend
    <3>3. QED
      BY <3>2, Zenon
  <2>6. CASE UNCHANGED vars
    BY <2>6, Zenon DEF vars, hist
  <2>7. QED
    BY <2>1, <2>2, <2>3, <2>4, <2>5, <2>6, Zenon DEF Next, Viewer
<1>2. ViewTypes /\ WalkInv /\ OldInv /\ NewInv
  BY <1>1 DEF ViewInv
<1>3. /\ log_cnt \in Nat /\ log_cnt >= 1 /\ LOG_POS \in Nat /\ Oldest \in Int /\ Oldest >= 1
      /\ Oldest = log_cnt - LOG_POS
      /\ log_lastid \in Nat /\ fromPos \in Nat
      /\ (lpc = "shift" => si = 0) => \A k \in 0 .. LOG_POS - 1 : log[k] = Oldest + k
  BY <1>2, Kept DEF ViewTypes
<1>4. /\ begun \in Nat /\ repeated \in Nat
      /\ repeated + begun <= log_cnt
      /\ FirstShown /\ Overlap
  BY <1>1 DEF RepeatInv, RepeatTypes
<1>5. CASE Logged \/ Receive \/ Shift \/ AppendLine
  <2>1. /\ UNCHANGED << vpc, i, batch, fromPos, log_lastid, shown >>
        /\ log_cnt' >= log_cnt /\ log_cnt' \in Nat
        /\ Walking => Oldest' = Oldest
    BY <1>2, <1>5, TaskMoves
  <2>2. UNCHANGED << begun, repeated >>
    BY <1>5, Zenon DEF Logged, Receive, Shift, AppendLine, hist, repeats
  <2>3. vpc' = "oldtake" =>
            vpc = "oldtake" /\ Oldest' + i' + Len(batch') = Oldest + i + Len(batch)
    BY <2>1, Zenon DEF Walking
  <2>4. QED
    BY <1>1, <2>1, <2>2, <2>3, NothingShown
<1>6. CASE View
  <2>1. /\ vpc = "off" /\ vpc' = "old"
        /\ UNCHANGED << begun, repeated, shown, log_lastid, log_cnt, fromPos >>
    BY <1>6, Zenon DEF View, task, hist, repeats
  <2>2. QED
    BY <1>1, <1>3, <2>1, NothingShown DEF OldPlaces
<1>7. CASE OldBegin
  <2>1. /\ vpc = "old" /\ lpc # "shift"
        /\ UNCHANGED << LOG_POS, log_cnt, fromPos, log_lastid, shown, repeated >>
        /\ begun' = IF fromPos = 0 THEN log_cnt ELSE begun
    BY <1>7, Zenon DEF OldBegin, task
  <2>2. /\ fromPos = 0 => shown = {} /\ repeated = 0
        /\ \A id \in shown : repeated + begun <= fromPos + id
    BY <1>4, <2>1 DEF FirstShown, Overlap, OldPlaces
  <2>3. /\ RepeatTypes'
        /\ (repeated + begun <= log_cnt)'
    BY <1>3, <1>4, <2>1, <2>2 DEF RepeatTypes
  <2>4. \A id \in shown' : repeated' + begun' <= fromPos' + id
    BY <2>1, <2>2
  <2>5. FirstShown'
    <3>1. /\ log_lastid' = 0 => shown' = {}
          /\ shown' = {} => repeated' = 0
      BY <1>4, <2>1, Zenon DEF FirstShown
    <3>2. fromPos' = 0 => shown' = {}
      BY <2>1, <2>2, Zenon
    <3>3. QED
      BY <3>1, <3>2, Zenon DEF FirstShown
  <2>6. /\ OldStart = LOG_POS - fromPos - 1
        /\ \A k \in 0 .. LOG_POS - 1 : log[k] = Oldest + k
    BY <1>3, <2>1 DEF OldStart
  <2>7. CASE vpc' = "new"
    BY <2>3, <2>4, <2>5, <2>7 DEF RepeatInv, Overlap, OldPlaces
  <2>8. CASE vpc' = "oldtake" /\ i' = OldStart /\ batch' = << >>
    <3>1. Len(batch') = 0 /\ Oldest' = Oldest
      BY <2>1, <2>8 DEF Oldest
    <3>2. Oldest' + i' + Len(batch') + fromPos' + 1 = log_cnt
      BY <1>3, <2>1, <2>6, <2>8, <3>1
    <3>3. repeated' + begun' <= Oldest' + i' + Len(batch') + fromPos' + 1
      BY <2>1, <2>3, <3>2
    <3>4. QED
      BY <2>3, <2>4, <2>5, <2>8, <3>3 DEF RepeatInv, Overlap
  <2>9. vpc' = "new" \/ (vpc' = "oldtake" /\ i' = OldStart /\ batch' = << >>)
    BY <1>7, Zenon DEF OldBegin
  <2>10. QED
    BY <2>7, <2>8, <2>9
<1>8. ASSUME NEW full \in BOOLEAN, OldTake(full)
      PROVE  RepeatInv'
  <2>1. /\ vpc = "oldtake" /\ batch' = Append(batch, log[i])
        /\ UNCHANGED << LOG_POS, log_cnt, fromPos, log_lastid, shown, begun, repeated >>
    BY <1>8, Zenon DEF OldTake, hist, repeats, task
  <2>2. \/ vpc' = "oldsend" /\ i' = i
        \/ vpc' = "oldtake" /\ i' = i - 1
    BY <1>8, Zenon DEF OldTake
  <2>3. i \in 0 .. LOG_POS - 1 /\ log[i] = Oldest + i
    BY <1>2, <1>3, <2>1 DEF WalkInv, Walking
  <2>4. /\ batch \in Seq(Int) /\ Len(batch) \in Nat
        /\ \A n \in 1 .. Len(batch) : batch[n] = Oldest + i + Len(batch) - n + 1
    BY <1>2, <2>1 DEF OldInv
  <2>5. Len(batch') = Len(batch) + 1 /\ Oldest' = Oldest
    BY <2>1, <2>4 DEF Oldest
  <2>6. vpc' = "oldtake" => Oldest' + i' + Len(batch') = Oldest + i + Len(batch)
    BY <1>3, <2>2, <2>3, <2>4, <2>5
  <2>7. batch'[1] = Oldest + i + Len(batch)
    <3>1. CASE Len(batch) = 0
      <4>1. batch'[1] = log[i]
        BY <2>1, <2>4, <3>1
      <4>2. QED
        BY <1>3, <2>3, <3>1, <4>1
    <3>2. CASE Len(batch) >= 1
      <4>1. batch'[1] = batch[1] /\ 1 \in 1 .. Len(batch)
        BY <2>1, <2>4, <3>2
      <4>2. QED
        BY <1>3, <2>3, <2>4, <4>1
    <3>3. QED
      BY <2>4, <3>1, <3>2
  <2>8. vpc \in OldPlaces
    BY <2>1 DEF OldPlaces
  <2>9. QED
    BY <1>1, <1>3, <2>1, <2>2, <2>6, <2>7, <2>8, NothingShown
<1>9. ASSUME NEW res \in {"ok", "busy", "fail"}, OldSend(res)
      PROVE  RepeatInv'
  <2>1. /\ vpc = "oldsend"
        /\ UNCHANGED << batch, log_cnt, begun >>
    BY <1>9, Zenon DEF OldSend, task
  <2>2. CASE res = "busy"
    <3>1. vpc' = "old" /\ UNCHANGED << fromPos, log_lastid, shown, repeated >>
      BY <1>9, <2>2 DEF OldSend
    <3>2. QED
      BY <1>1, <1>3, <2>1, <3>1, NothingShown DEF OldPlaces
  <2>3. CASE res = "fail"
    <3>1. vpc' = "new" /\ UNCHANGED << fromPos, log_lastid, shown, repeated >>
      BY <1>9, <2>3 DEF OldSend
    <3>2. QED
      BY <1>1, <1>3, <2>1, <3>1, NothingShown DEF OldPlaces
  <2>4. CASE res = "ok"
    <3>1. /\ batch \in Seq(Int) /\ Len(batch) \in Nat /\ Len(batch) >= 1
          /\ batch[1] \in Int
          /\ \A n \in 1 .. Len(batch) : batch[n] = batch[1] - n + 1
          /\ batch[1] >= 1
          /\ batch[1] + fromPos < log_cnt
      BY <1>2, <2>1 DEF OldInv
    <3>2. LastId = batch[1] /\ IdAfter = IF batch[1] > log_lastid THEN batch[1] ELSE log_lastid
      BY <3>1, LastOfDescending DEF IdAfter
    <3>3. /\ vpc' = "old" /\ fromPos' = fromPos + Len(batch) /\ log_lastid' = IdAfter
          /\ shown' = shown \cup Sent
          /\ repeated' = repeated + Cardinality(Sent \cap shown)
      BY <1>9, <2>4, <3>1, <3>2 DEF OldSend, FromPosAfter
    <3>4. Sent \subseteq batch[1] - Len(batch) + 1 .. batch[1]
      <4>1. ASSUME NEW n \in 1 .. Len(batch)
            PROVE  batch[n] \in batch[1] - Len(batch) + 1 .. batch[1]
        BY <3>1
      <4>2. QED
        BY <4>1, Zenon DEF Sent
    <3>5. \A id \in shown : id \in Int /\ repeated + begun <= fromPos + id
      BY <1>2, <1>4, <2>1 DEF ViewTypes, Overlap, OldPlaces
    <3>6. repeated + begun <= batch[1] + fromPos + 1
      BY <1>4, <2>1 DEF Overlap
    <3>7. PICK again \in Nat : /\ again = Cardinality(Sent \cap shown)
                               /\ again <= Len(batch)
                               /\ repeated + again + begun <= batch[1] + fromPos + 1
      BY <1>3, <1>4, <3>1, <3>4, <3>5, <3>6, PageRepeats
    <3>8. repeated' = repeated + again /\ begun' = begun /\ log_cnt' = log_cnt
      BY <2>1, <3>3, <3>7, Zenon
    <3>9. PICK first \in Int, n \in Nat :
              /\ first = batch[1] /\ n = Len(batch)
              /\ again <= n /\ repeated + again + begun <= first + fromPos + 1
              /\ first + fromPos < log_cnt
              /\ fromPos' = fromPos + n
      BY <3>1, <3>3, <3>7, Zenon
    <3>10. begun \in Nat /\ repeated \in Nat /\ fromPos \in Nat /\ log_cnt \in Nat
      BY <1>3, <1>4, Zenon
    <3>11. /\ RepeatTypes'
          /\ (repeated + begun <= log_cnt)'
      BY <3>8, <3>9, <3>10 DEF RepeatTypes
    <3>12. batch[1] \in shown'
      BY <3>1, <3>3 DEF Sent
    <3>13. FirstShown'
      BY <1>3, <3>1, <3>2, <3>3, <3>12 DEF FirstShown
    <3>14. ASSUME NEW id \in shown'
           PROVE  repeated' + begun' <= fromPos' + id
      <4>1. CASE id \in shown
        <5>1. id \in Int /\ repeated + begun <= fromPos + id
          BY <3>5, <4>1, Zenon
        <5>2. QED
          BY <3>8, <3>9, <3>10, <5>1
      <4>2. CASE id \in Sent
        <5>1. id \in first - n + 1 .. first
          BY <3>4, <3>9, <4>2, Zenon
        <5>2. QED
          BY <3>8, <3>9, <3>10, <5>1
      <4>3. QED
        BY <3>3, <3>14, <4>1, <4>2
    <3>15. QED
      BY <3>3, <3>11, <3>13, <3>14, Zenon DEF RepeatInv, Overlap
  <2>5. QED
    BY <1>9, <2>2, <2>3, <2>4
<1>10. CASE NewBegin
  <2>1. /\ vpc = "new"
        /\ UNCHANGED << log_cnt, shown, begun, repeated, log_lastid >>
        /\ vpc' = "newwalk" \/ (vpc' = Pass /\ fromPos' = 0)
    BY <1>10, Zenon DEF NewBegin, repeats, task
  <2>2. CASE vpc' \in NewPlaces
    BY <1>1, <1>3, <2>1, <2>2, NothingShown DEF OldPlaces, NewPlaces
  <2>3. CASE vpc' = "old" /\ fromPos' = 0 /\ log_lastid' = 0
    <3>1. shown' = {} /\ repeated' = 0
      BY <1>4, <2>1, <2>3 DEF FirstShown
    <3>2. QED
      BY <1>3, <1>4, <2>1, <2>3, <3>1 DEF RepeatInv, RepeatTypes, FirstShown, Overlap
  <2>4. QED
    BY <2>1, <2>2, <2>3 DEF Pass, NewPlaces
<1>11. CASE NewWalk
  <2>1. /\ UNCHANGED << log_cnt, shown, begun, repeated, log_lastid >>
        /\ vpc' \in {"newwalk", "newtake"}
    <3>1. UNCHANGED << log_cnt, shown, begun, repeated, log_lastid >>
      BY <1>11, Zenon DEF NewWalk, hist, repeats, task
    <3>2. vpc' \in {"newwalk", "newtake"}
      BY <1>11 DEF NewWalk
    <3>3. QED
      BY <3>1, <3>2
  <2>2. QED
    BY <1>1, <1>3, <2>1, NothingShown DEF OldPlaces
<1>12. ASSUME NEW full \in BOOLEAN, NewTake(full)
       PROVE  RepeatInv'
  <2>1. /\ UNCHANGED << log_cnt, shown, begun, repeated, log_lastid >>
        /\ vpc' \in {"newwalk", "newsend"}
    <3>1. UNCHANGED << log_cnt, shown, begun, repeated, log_lastid >>
      BY <1>12, Zenon DEF NewTake, hist, repeats, task
    <3>2. vpc' = "newwalk" \/ vpc' = "newsend"
      BY <1>12, Zenon DEF NewTake
    <3>3. QED
      BY <3>1, <3>2
  <2>2. QED
    BY <1>1, <1>3, <2>1, NothingShown DEF OldPlaces
<1>13. ASSUME NEW res \in {"ok", "busy", "fail"}, NewSend(res)
       PROVE  RepeatInv'
  <2>1. /\ vpc = "newsend"
        /\ UNCHANGED << log_cnt, batch, begun, repeated >>
        /\ (vpc' = Pass /\ fromPos' = 0) \/ vpc' = "new"
        /\ \/ res = "ok" /\ log_lastid' = IdAfter /\ shown' = shown \cup Sent
           \/ UNCHANGED << log_lastid, shown >>
    BY <1>13, Zenon DEF NewSend, repeats, task
  <2>2. batch \in Seq(Int) /\ Len(batch) = 1 /\ batch[1] > log_lastid /\ batch[1] \in Int
    <3>1. batch \in Seq(Int) /\ Len(batch) = 1 /\ batch[1] > log_lastid
      BY <1>2, <2>1 DEF NewInv
    <3>2. QED
      BY <3>1
  <2>3. LastId = batch[1] /\ IdAfter = batch[1]
    <3>1. \A n \in 1 .. Len(batch) : batch[n] = batch[1] - n + 1
      BY <2>2
    <3>2. LastId = batch[1]
      BY <2>2, <3>1, LastOfDescending
    <3>3. QED
      BY <2>2, <3>2 DEF IdAfter
  <2>4. log_lastid' = 0 => log_lastid = 0 /\ shown' = shown
    BY <1>3, <2>1, <2>2, <2>3
  <2>5. shown' = {} => shown = {}
    BY <2>1
  <2>6. /\ log_lastid' = 0 => shown' = {}
        /\ shown' = {} => repeated' = 0
    BY <1>4, <2>1, <2>4, <2>5, Zenon DEF FirstShown
  <2>7. RepeatTypes' /\ (repeated + begun <= log_cnt)'
    BY <1>4, <2>1 DEF RepeatTypes
  <2>8. vpc' = "new" \/ (vpc' = "old" /\ log_lastid' = 0)
    BY <2>1 DEF Pass
  <2>9. CASE vpc' = "new"
    BY <2>6, <2>7, <2>9 DEF RepeatInv, FirstShown, Overlap, OldPlaces
  <2>10. CASE vpc' = "old" /\ log_lastid' = 0
    BY <2>6, <2>7, <2>10 DEF RepeatInv, FirstShown, Overlap
  <2>11. QED
    BY <2>8, <2>9, <2>10
<1>14. CASE UNCHANGED vars
  <2>1. UNCHANGED << LOG_POS, log_cnt, vpc, i, batch, fromPos, log_lastid, shown, begun,
                     repeated >>
    BY <1>14, Zenon DEF vars, task, hist, repeats
  <2>2. Oldest' = Oldest
    BY <2>1 DEF Oldest
  <2>3. QED
    BY <1>1, <1>3, <2>1, <2>2, NothingShown
<1>15. QED
  BY <1>5, <1>6, <1>7, <1>8, <1>9, <1>10, <1>11, <1>12, <1>13, <1>14, Zenon DEF Next, Viewer

LEMMA ViewInvIsEnough == RingInv /\ ViewInv /\ RepeatInv => ViewIsExact
<1> SUFFICES ASSUME RingInv, ViewInv, RepeatInv
             PROVE  NothingSkipped /\ NewOnce /\ OldRepeatsAccount
  BY DEF ViewIsExact
<1>1. NothingSkipped
  <2> SUFFICES ASSUME vpc \in NewPlaces, lpc = "idle", ~raced, ~failed,
                      NEW k \in 0 .. LOG_POS - 1, log[k] <= log_lastid
               PROVE  log[k] \in shown
    BY DEF NothingSkipped, NewPlaces
  <2>1. ShownFrom(Oldest) /\ log_lastid \in Nat
    BY DEF ViewInv, ViewTypes, NewInv
  <2>2. log[k] = Oldest + k /\ Oldest \in Int /\ LOG_POS \in Nat
    BY Kept
  <2>3. log[k] \in Oldest .. log_lastid
    BY <2>1, <2>2
  <2>4. QED
    BY <2>1, <2>3 DEF ShownFrom
<1>2. NewOnce
  <2> SUFFICES ASSUME vpc = "newsend", ~raced
               PROVE  Sent \cap shown = {}
    BY DEF NewOnce
  <2>1. /\ batch \in Seq(Int) /\ Len(batch) = 1 /\ batch[1] > log_lastid
        /\ log_lastid \in Nat
        /\ \A id \in shown : id \in Int /\ id <= log_lastid
    BY DEF ViewInv, ViewTypes, NewInv
  <2>2. Sent = {batch[1]} /\ batch[1] \in Int
    BY <2>1 DEF Sent
  <2>3. QED
    BY <2>1, <2>2
<1>3. OldRepeatsAccount
  <2> SUFFICES ASSUME ~ raced
               PROVE  repeated <= log_cnt - begun
    BY DEF OldRepeatsAccount
  <2>1. /\ begun \in Nat /\ repeated \in Nat /\ log_cnt \in Nat
        /\ repeated + begun <= log_cnt
    BY DEF RepeatInv, RepeatTypes, RingInv, TaskTypes
  <2>2. QED
    BY <2>1
<1>4. QED
  BY <1>1, <1>2, <1>3

\* Unless the array moved while it was being read, the viewer of the web page shows
\* every line that is kept, each new one once, and repeats at most as many old ones as
\* were appended while it sent them, for every size of the array and of the queue,
\* however the lines come between its messages and whatever is not sent.
THEOREM EveryLineOnce == Spec => []ViewIsExact
<1>1. RingInv /\ ViewInv /\ RepeatInv => ViewIsExact
  BY ViewInvIsEnough
<1>2. Init => RingInv /\ ViewInv /\ RepeatInv
  BY RingInit, ViewInit, RepeatInit
<1>3. (RingInv /\ ViewInv /\ RepeatInv) /\ [Next]_vars => (RingInv /\ ViewInv /\ RepeatInv)'
  BY RingStep, ViewStep, RepeatStep
<1>4. QED
  BY <1>1, <1>2, <1>3, PTL DEF Spec


-----------------------------------------------------------------------------
(***************************************************************************)
(* UsbhCdc.  CdcCtl says which of the tasks, the pipe and the port there are         *)
(* together.  For the data, each direction is taken as a chain: the units are in     *)
(* ascending order in each sequence and before those of the next one.  The two are    *)
(* tied by Events, which has an event in the queue of the data task for each URB that  *)
(* is done, and by Lengths, the types and the counters of the rings.               *)
(***************************************************************************)

\* A nonempty set of numbers has a least one.
LEMMA Smallest == ASSUME NEW S \in SUBSET Nat, S # {} PROVE \E n \in S : \A m \in S : n <= m
<1> DEFINE Upto(n) == { k \in S : k <= n }
           T == { Upto(n) : n \in S }
<1>1. T \subseteq FiniteSubsetsOf(Nat) /\ T # {}
  <2>1. ASSUME NEW n \in S
        PROVE  IsFiniteSet(Upto(n)) /\ Upto(n) \subseteq Nat
    <3>1. n \in Nat /\ Upto(n) \in SUBSET Nat /\ \A s \in Upto(n) : s <= n
      OBVIOUS
    <3>. HIDE DEF Upto
    <3>2. QED
      BY <3>1, FS_BoundedSetOfNaturals
  <2>2. QED
    BY <2>1 DEF FiniteSubsetsOf
<1>2. PICK x \in T : \A y \in T : ~ (<< y, x >> \in StrictSubsetOrdering(Nat))
  <2>. HIDE DEF T
  <2>1. QED
    BY <1>1, FS_StrictSubsetOrderingWellFounded, WFMin, Zenon
<1>3. PICK n \in S : x = Upto(n)
  OBVIOUS
<1>4. ASSUME NEW m \in S, m < n
      PROVE  FALSE
  <2>0. m \in Nat /\ n \in Nat
    OBVIOUS
  <2>7. Upto(m) \in T
    BY Zenon
  <2>8. ASSUME NEW k \in S, k <= m
        PROVE  k <= n
    BY <1>4, <2>0, <2>8
  <2>1. Upto(m) \subseteq Upto(n) /\ n \in Upto(n) /\ n \notin Upto(m)
    <3>1. n <= n /\ ~ (n <= m)
      BY <1>4, <2>0
    <3>2. QED
      BY <2>8, <3>1, Zenon
  <2>2. Upto(m) \in SUBSET Nat /\ x \in SUBSET Nat /\ Upto(m) # x
    BY <1>3, <2>1
  <2>3. << Upto(m), x >> \in StrictSubsetOrdering(Nat)
    BY <1>3, <2>1, <2>2 DEF StrictSubsetOrdering
  <2>4. QED
    BY <1>2, <2>7, <2>3, Zenon
<1>5. QED BY <1>4

\* The data task is past its start.
Moving == {"run", "push", "incount", "send", "outcount"}

\* Who has what: the default pipe lives from the reset of the port to the end of the
\* teardown, the data task within it, the bit of usbh_cdc_driver_install within that.
CdcCtl ==
    /\ ppc \in {"power", "wait", "portreset", "request", "answer", "create",
                "reset", "killwait", "droppipe", "recover", "deinit", "gone"}
    /\ dpc \in {"none", "start", "pipes", "close"} \cup Moving
    /\ dpipe \in BOOLEAN /\ hasTask \in BOOLEAN /\ ready \in BOOLEAN /\ kill \in BOOLEAN
    /\ pevt = "conn" => port = "on"
    /\ dpipe => port \in {"enabled", "recovery"}
    /\ ppc \in {"request", "answer", "create"} => dpipe
    /\ ppc \in {"portreset", "recover", "deinit"} => ~ dpipe
    /\ hasTask => dpipe /\ ppc \in {"wait", "reset", "killwait"}
    /\ ppc = "killwait" => hasTask
    /\ dpc # "none" => hasTask
    /\ hasTask /\ ppc # "killwait" => dpc # "none"
    /\ kill <=> dpc # "none" /\ ppc = "killwait"
    /\ dpc = "close" => kill
    /\ ready => dpc \in Moving

ctlVars == << port, pevt, ppc, dpipe, hasTask, ready, kill, dpc >>

LEMMA CtlInit == Usb!Init => CdcCtl
BY DEF Usb!Init, CdcCtl

LEMMA CtlKept == CdcCtl /\ UNCHANGED ctlVars => CdcCtl'
BY DEF CdcCtl, ctlVars, Moving

LEMMA ProcessingCtl == CdcCtl /\ Usb!Processing => CdcCtl'
<1> SUFFICES ASSUME CdcCtl, Usb!Processing
             PROVE  CdcCtl'
  OBVIOUS
<1> USE DEF CdcCtl, Usb!proc, Usb!bits, Moving
<1>1. CASE Usb!PowerOn
  BY <1>1 DEF Usb!PowerOn
<1>2. CASE Usb!LoopReceive
  BY <1>2 DEF Usb!LoopReceive, Usb!HandleEvent
<1>3. CASE Usb!LoopEnds
  BY <1>3 DEF Usb!LoopEnds
<1>4. CASE Usb!PortReset
  BY <1>4 DEF Usb!PortReset
<1>5. CASE Usb!EnqueueRequest
  BY <1>5 DEF Usb!EnqueueRequest
<1>6. CASE Usb!AwaitAnswer
  BY <1>6 DEF Usb!AwaitAnswer, Usb!HandleEvent
<1>7. CASE Usb!AnswerTimeout
  BY <1>7 DEF Usb!AnswerTimeout
<1>8. CASE Usb!CreateDataTask
  BY <1>8 DEF Usb!CreateDataTask
<1>9. CASE Usb!ResetDriver
  BY <1>9 DEF Usb!ResetDriver
<1>10. CASE Usb!KillWait
  BY <1>10 DEF Usb!KillWait, Usb!TaskGone
<1>11. CASE Usb!SwallowEvent
  BY <1>11 DEF Usb!SwallowEvent, Usb!Swallowed, Usb!HandleEvent
<1>12. CASE Usb!DropPipe
  BY <1>12 DEF Usb!DropPipe
<1>13. CASE Usb!Recover
  BY <1>13 DEF Usb!Recover, Usb!Recovered
<1>14. CASE Usb!Deinit
  BY <1>14 DEF Usb!Deinit
<1>15. QED
  BY <1>1, <1>2, <1>3, <1>4, <1>5, <1>6, <1>7, <1>8, <1>9, <1>10, <1>11, <1>12,
     <1>13, <1>14, Zenon DEF Usb!Processing

LEMMA DataTaskCtl == CdcCtl /\ Usb!DataTask => CdcCtl'
<1> SUFFICES ASSUME CdcCtl, Usb!DataTask
             PROVE  CdcCtl'
  OBVIOUS
<1>0. ASSUME UNCHANGED << port, pevt, Usb!proc, kill >>, UNCHANGED ready,
             dpc \in Moving, dpc' \in Moving
      PROVE  CdcCtl'
  BY <1>0 DEF CdcCtl, Usb!proc, Moving
<1>1. CASE Usb!DataStart
  BY <1>1 DEF Usb!DataStart, CdcCtl, Usb!proc, Usb!bits, Moving
<1>2. CASE Usb!DataReady
  BY <1>2 DEF Usb!DataReady, CdcCtl, Usb!proc, Moving
<1>3. CASE Usb!TakeIn
  BY <1>0, <1>3 DEF Usb!TakeIn, Usb!Runs, Usb!bits, Moving
<1>4. CASE Usb!PushIn
  BY <1>0, <1>4 DEF Usb!PushIn, Usb!bits, Moving
<1>5. CASE Usb!CountIn
  BY <1>0, <1>5 DEF Usb!CountIn, Usb!bits, Moving
<1>6. CASE Usb!SkipIn
  BY <1>0, <1>6 DEF Usb!SkipIn, Usb!bits, Moving
<1>7. CASE Usb!TakeOut
  <2>1. UNCHANGED << port, pevt, Usb!proc, kill >> /\ UNCHANGED ready
    BY <1>7, Zenon DEF Usb!TakeOut, Usb!bits
  <2>2. dpc = "run" /\ dpc' \in {"run", "send"}
    BY <1>7 DEF Usb!TakeOut, Usb!Runs, Usb!SendNext
  <2>3. QED
    BY <1>0, <2>1, <2>2 DEF Moving
<1>8. CASE Usb!PollOut
  BY <1>0, <1>8 DEF Usb!PollOut, Usb!Poll, Usb!Runs, Usb!bits, Moving
<1>9. CASE Usb!PopOut
  <2>1. UNCHANGED << port, pevt, Usb!proc, kill >> /\ UNCHANGED ready
    BY <1>9, Zenon DEF Usb!PopOut, Usb!bits
  <2>2. dpc = "send" /\ dpc' \in {"send", "outcount"}
    BY <1>9, Zenon DEF Usb!PopOut
  <2>3. QED
    BY <1>0, <2>1, <2>2 DEF Moving
<1>10. CASE Usb!PopNothing
  BY <1>0, <1>10 DEF Usb!PopNothing, Usb!bits, Moving
<1>11. CASE Usb!CountOut
  BY <1>0, <1>11 DEF Usb!CountOut, Usb!bits, Moving
<1>12. CASE Usb!DataKilled
  BY <1>12 DEF Usb!DataKilled, CdcCtl, Usb!proc, Moving
<1>13. CASE Usb!Close
  BY <1>13 DEF Usb!Close, CdcCtl, Usb!proc, Moving
<1>14. QED
  BY <1>1, <1>2, <1>3, <1>4, <1>5, <1>6, <1>7, <1>8, <1>9, <1>10, <1>11, <1>12,
     <1>13, Zenon DEF Usb!DataTask

LEMMA CtlStep == CdcCtl /\ [Usb!Next]_Usb!vars => CdcCtl'
<1> SUFFICES ASSUME CdcCtl, [Usb!Next]_Usb!vars
             PROVE  CdcCtl'
  OBVIOUS
<1>1. CASE Usb!Device
  <2>1. CASE Usb!Connected
    BY <2>1 DEF Usb!Connected, Usb!Raise, CdcCtl, Usb!proc, Usb!bits, Moving
  <2>2. CASE Usb!Unplug
    BY <2>2 DEF Usb!Unplug, Usb!Raise, CdcCtl, Usb!proc, Usb!bits, Moving
  <2>3. CASE Usb!Plug
    BY <2>3, CtlKept DEF Usb!Plug, Usb!proc, Usb!bits, ctlVars
  <2>4. CASE Usb!RequestDone
    BY <2>4, CtlKept DEF Usb!RequestDone, Usb!proc, Usb!bits, ctlVars
  <2>5. CASE Usb!InTransfer
    BY <2>5, CtlKept DEF Usb!InTransfer, Usb!proc, Usb!bits, ctlVars
  <2>6. ASSUME NEW ok \in BOOLEAN, Usb!OutTransfer(ok)
        PROVE  CdcCtl'
    BY <2>6, CtlKept DEF Usb!OutTransfer, Usb!proc, Usb!bits, ctlVars
  <2>7. QED
    BY <1>1, <2>1, <2>2, <2>3, <2>4, <2>5, <2>6, Zenon DEF Usb!Device
<1>2. CASE Usb!Processing
  BY <1>2, ProcessingCtl
<1>3. CASE Usb!DataTask
  BY <1>3, DataTaskCtl
<1>4. CASE Usb!Reader \/ Usb!Writer
  <2>1. UNCHANGED Usb!drv
    BY <1>4, Zenon DEF Usb!Reader, Usb!Writer, Usb!WriterGoesOn, Usb!ReadEnter, Usb!ReadPop,
                       Usb!ReadCount,
                       Usb!ReadNothing, Usb!WriteEnter, Usb!WritePush, Usb!WriteCount,
                       Usb!WriteFails
  <2>2. QED
    BY <2>1, CtlKept DEF Usb!drv, Usb!proc, Usb!bits, ctlVars
<1>5. CASE Usb!DriverDelete
  BY <1>5, CtlKept DEF Usb!DriverDelete, Usb!proc, ctlVars
<1>6. CASE UNCHANGED Usb!vars
  BY <1>6, CtlKept DEF Usb!vars, Usb!proc, Usb!bits, ctlVars
<1>7. QED
  BY <1>1, <1>2, <1>3, <1>4, <1>5, <1>6, Zenon DEF Usb!Next

\* There is one data task at a time, within the life of the default pipe and of the
\* port, and the port is recovered after both are gone, whatever the order in which
\* the processing task, the data task and the disconnection go on.
THEOREM CdcTeardown == Usb!Spec => []Usb!TeardownInOrder
<1>1. CdcCtl => Usb!TeardownInOrder
  BY DEF CdcCtl, Usb!TeardownInOrder, Moving
<1>2. QED
  BY <1>1, CtlInit, CtlStep, PTL DEF Usb!Spec

-----------------------------------------------------------------------------
(* Sequences of units: ascending ones, their sets, and sequences of them, as the    *)
(* URBs hold them.                                                             *)

\* A sequence in ascending order; the units of A come before those of B.
Asc(s) == \A j, k \in 1 .. Len(s) : j < k => s[j] < s[k]
Before(A, B) == \A x \in A, y \in B : x < y

LEMMA EmptyAsc == /\ << >> \in Seq(Nat) /\ Asc(<< >>) /\ Usb!Range(<< >>) = {} /\ Len(<< >>) = 0
BY DEF Asc, Usb!Range

LEMMA RangeOfSeq ==
    ASSUME NEW s \in Seq(Nat)
    PROVE  /\ Usb!Range(s) \subseteq Nat
           /\ \A x : x \in Usb!Range(s) <=> \E k \in 1 .. Len(s) : s[k] = x
BY DEF Usb!Range

LEMMA AscTail ==
    ASSUME NEW s \in Seq(Nat), Asc(s), s # << >>
    PROVE  /\ Tail(s) \in Seq(Nat) /\ Asc(Tail(s)) /\ Len(Tail(s)) = Len(s) - 1
           /\ Head(s) \in Usb!Range(s) /\ Usb!Range(Tail(s)) = Usb!Range(s) \ {Head(s)}
           /\ Before({Head(s)}, Usb!Range(Tail(s)))
<1>1. /\ Len(s) \in Nat /\ Len(s) >= 1 /\ Head(s) = s[1] /\ s[1] \in Nat
      /\ Tail(s) \in Seq(Nat) /\ Len(Tail(s)) = Len(s) - 1
      /\ \A k \in 1 .. Len(s) - 1 : Tail(s)[k] = s[k + 1]
  OBVIOUS
<1>2. Asc(Tail(s))
  BY <1>1 DEF Asc
<1>3. \A k \in 1 .. Len(s) : k # 1 => s[1] < s[k] /\ s[k] = Tail(s)[k - 1]
  BY <1>1 DEF Asc
<1>4. ASSUME NEW x \in Usb!Range(Tail(s))
      PROVE  x \in Usb!Range(s) /\ s[1] < x
  <2>1. PICK k \in 1 .. Len(s) - 1 : x = Tail(s)[k]
    BY <1>1 DEF Usb!Range
  <2>2. k + 1 \in 1 .. Len(s) /\ x = s[k + 1] /\ k + 1 # 1
    BY <1>1, <2>1
  <2>3. QED
    BY <1>3, <2>2, RangeOfSeq
<1>5. ASSUME NEW x \in Usb!Range(s), x # s[1]
      PROVE  x \in Usb!Range(Tail(s))
  <2>1. PICK k \in 1 .. Len(s) : x = s[k]
    BY <1>1, RangeOfSeq
  <2>2. k - 1 \in 1 .. Len(s) - 1 /\ x = Tail(s)[k - 1]
    BY <1>1, <1>3, <1>5, <2>1
  <2>3. QED
    BY <1>1, <2>2, RangeOfSeq
<1>6. Head(s) \in Usb!Range(s)
  BY <1>1, RangeOfSeq
<1>7. Head(s) \notin Usb!Range(Tail(s))
  BY <1>1, <1>4
<1>8. QED
  BY <1>1, <1>2, <1>4, <1>5, <1>6, <1>7 DEF Before

LEMMA AscAppend ==
    ASSUME NEW s \in Seq(Nat), Asc(s), NEW n \in Nat, Before(Usb!Range(s), {n})
    PROVE  /\ Append(s, n) \in Seq(Nat) /\ Asc(Append(s, n)) /\ Len(Append(s, n)) = Len(s) + 1
           /\ Usb!Range(Append(s, n)) = Usb!Range(s) \cup {n}
<1>1. /\ Len(s) \in Nat /\ Append(s, n) \in Seq(Nat) /\ Len(Append(s, n)) = Len(s) + 1
      /\ \A k \in 1 .. Len(s) : Append(s, n)[k] = s[k]
      /\ Append(s, n)[Len(s) + 1] = n
  OBVIOUS
<1>2. \A k \in 1 .. Len(s) : s[k] \in Nat /\ s[k] < n
  BY RangeOfSeq DEF Before
<1>3. Asc(Append(s, n))
  <2> SUFFICES ASSUME NEW j \in 1 .. Len(s) + 1, NEW k \in 1 .. Len(s) + 1, j < k
               PROVE  Append(s, n)[j] < Append(s, n)[k]
    BY <1>1 DEF Asc
  <2>1. j \in 1 .. Len(s)
    BY <1>1
  <2>2. CASE k = Len(s) + 1
    BY <1>1, <1>2, <2>1, <2>2
  <2>3. CASE k # Len(s) + 1
    <3>1. k \in 1 .. Len(s)
      BY <1>1, <2>3
    <3>2. QED
      BY <1>1, <2>1, <3>1 DEF Asc
  <2>4. QED
    BY <2>2, <2>3
<1>4. Usb!Range(Append(s, n)) = Usb!Range(s) \cup {n}
  <2>1. ASSUME NEW x \in Usb!Range(Append(s, n))
        PROVE  x \in Usb!Range(s) \cup {n}
    <3>1. PICK k \in 1 .. Len(s) + 1 : Append(s, n)[k] = x
      BY <1>1, RangeOfSeq
    <3>2. k = Len(s) + 1 \/ k \in 1 .. Len(s)
      BY <1>1
    <3>3. QED
      BY <1>1, <3>1, <3>2, RangeOfSeq
  <2>2. ASSUME NEW x \in Usb!Range(s)
        PROVE  x \in Usb!Range(Append(s, n))
    <3>1. PICK k \in 1 .. Len(s) : s[k] = x
      BY RangeOfSeq
    <3>2. k \in 1 .. Len(s) + 1 /\ Append(s, n)[k] = x
      BY <1>1, <3>1
    <3>3. QED
      BY <1>1, <3>2, RangeOfSeq
  <2>3. n \in Usb!Range(Append(s, n))
    <3>1. Len(s) + 1 \in 1 .. Len(Append(s, n))
      BY <1>1
    <3>2. QED
      BY <1>1, <3>1, RangeOfSeq
  <2>4. QED
    BY <2>1, <2>2, <2>3
<1>5. QED
  BY <1>1, <1>3, <1>4

LEMMA AscSplit ==
    ASSUME NEW s \in Seq(Nat), Asc(s), NEW n \in 1 .. Len(s)
    PROVE  LET a == SubSeq(s, 1, n)
               b == SubSeq(s, n + 1, Len(s))
           IN  /\ a \in Seq(Nat) /\ Asc(a) /\ Len(a) = n
               /\ b \in Seq(Nat) /\ Asc(b) /\ Len(b) = Len(s) - n
               /\ Usb!Range(a) \cup Usb!Range(b) = Usb!Range(s) /\ Before(Usb!Range(a), Usb!Range(b))
<1> DEFINE a == SubSeq(s, 1, n)
           b == SubSeq(s, n + 1, Len(s))
<1>1. /\ Len(s) \in Nat /\ a \in Seq(Nat) /\ b \in Seq(Nat) /\ Len(a) = n /\ Len(b) = Len(s) - n
      /\ \A k \in 1 .. n : a[k] = s[k]
      /\ \A k \in 1 .. Len(s) - n : b[k] = s[n + k]
  OBVIOUS
<1> HIDE DEF a, b
<1>2. Asc(a) /\ Asc(b)
  <2>1. ASSUME NEW j \in 1 .. n, NEW k \in 1 .. n, j < k
        PROVE  a[j] < a[k]
    <3>1. j \in 1 .. Len(s) /\ k \in 1 .. Len(s)
      BY <1>1
    <3>2. QED
      BY <1>1, <2>1, <3>1 DEF Asc
  <2>2. ASSUME NEW j \in 1 .. Len(s) - n, NEW k \in 1 .. Len(s) - n, j < k
        PROVE  b[j] < b[k]
    <3>1. n + j \in 1 .. Len(s) /\ n + k \in 1 .. Len(s) /\ n + j < n + k
      BY <1>1, <2>2
    <3>2. s[n + j] < s[n + k]
      BY <3>1 DEF Asc
    <3>3. QED
      BY <1>1, <3>2
  <2>3. QED
    BY <1>1, <2>1, <2>2 DEF Asc
<1>3. ASSUME NEW x \in Usb!Range(a)
      PROVE  \E k \in 1 .. n : x = s[k]
  BY <1>1, RangeOfSeq
<1>4. ASSUME NEW x \in Usb!Range(b)
      PROVE  \E k \in n + 1 .. Len(s) : x = s[k]
  <2>1. PICK k \in 1 .. Len(b) : x = b[k]
    BY <1>1, RangeOfSeq
  <2>2. k \in 1 .. Len(s) - n /\ n + k \in n + 1 .. Len(s)
    BY <1>1
  <2>3. x = s[n + k]
    BY <1>1, <2>1, <2>2
  <2>4. QED
    BY <2>2, <2>3
<1>5. ASSUME NEW x \in Usb!Range(s)
      PROVE  x \in Usb!Range(a) \cup Usb!Range(b)
  <2>1. PICK k \in 1 .. Len(s) : x = s[k]
    BY RangeOfSeq
  <2>2. CASE k <= n
    <3>1. k \in 1 .. Len(a) /\ a[k] = x
      BY <1>1, <2>1, <2>2
    <3>2. QED
      BY <1>1, <3>1, RangeOfSeq
  <2>3. CASE ~ (k <= n)
    <3>1. k - n \in 1 .. Len(b) /\ b[k - n] = x
      BY <1>1, <2>1, <2>3
    <3>2. QED
      BY <1>1, <3>1, RangeOfSeq
  <2>4. QED
    BY <2>2, <2>3
<1>6. Usb!Range(a) \cup Usb!Range(b) = Usb!Range(s)
  <2>1. ASSUME NEW x \in Usb!Range(a) \cup Usb!Range(b)
        PROVE  x \in Usb!Range(s)
    <3>1. PICK k \in 1 .. Len(s) : x = s[k]
      BY <1>1, <1>3, <1>4
    <3>2. QED
      BY <3>1, RangeOfSeq
  <2>2. QED
    BY <1>5, <2>1
<1>7. Before(Usb!Range(a), Usb!Range(b))
  <2> SUFFICES ASSUME NEW x \in Usb!Range(a), NEW y \in Usb!Range(b)
               PROVE  x < y
    BY DEF Before
  <2>1. PICK j \in 1 .. n : x = s[j]
    BY <1>3
  <2>2. PICK k \in n + 1 .. Len(s) : y = s[k]
    BY <1>4
  <2>3. j \in 1 .. Len(s) /\ k \in 1 .. Len(s) /\ j < k
    BY <1>1
  <2>4. QED
    BY <2>1, <2>2, <2>3 DEF Asc
<1>8. QED
  BY <1>1, <1>2, <1>6, <1>7 DEF a, b

LEMMA RangeConcat ==
    ASSUME NEW s \in Seq(Nat), NEW t \in Seq(Nat)
    PROVE  /\ s \o t \in Seq(Nat) /\ Len(s \o t) = Len(s) + Len(t)
           /\ \A k \in 1 .. Len(s) : (s \o t)[k] = s[k]
           /\ \A k \in Len(s) + 1 .. Len(s) + Len(t) :
                (s \o t)[k] = t[k - Len(s)] /\ k - Len(s) \in 1 .. Len(t)
           /\ Usb!Range(s \o t) = Usb!Range(s) \cup Usb!Range(t)
<1>1. /\ Len(s) \in Nat /\ Len(t) \in Nat /\ s \o t \in Seq(Nat) /\ Len(s \o t) = Len(s) + Len(t)
      /\ \A k \in 1 .. Len(s) : (s \o t)[k] = s[k]
      /\ \A k \in Len(s) + 1 .. Len(s) + Len(t) : (s \o t)[k] = t[k - Len(s)]
  OBVIOUS
<1>2. ASSUME NEW x \in Usb!Range(s \o t)
      PROVE  x \in Usb!Range(s) \cup Usb!Range(t)
  <2>1. PICK k \in 1 .. Len(s) + Len(t) : x = (s \o t)[k]
    BY <1>1 DEF Usb!Range
  <2>2. CASE k <= Len(s)
    BY <1>1, <2>1, <2>2, RangeOfSeq
  <2>3. CASE ~ (k <= Len(s))
    <3>1. k - Len(s) \in 1 .. Len(t) /\ x = t[k - Len(s)]
      BY <1>1, <2>1, <2>3
    <3>2. QED
      BY <3>1, RangeOfSeq
  <2>4. QED
    BY <2>2, <2>3
<1>3. ASSUME NEW x \in Usb!Range(s)
      PROVE  x \in Usb!Range(s \o t)
  <2>1. PICK k \in 1 .. Len(s) : x = s[k]
    BY RangeOfSeq
  <2>2. k \in 1 .. Len(s \o t) /\ (s \o t)[k] = x
    BY <1>1, <2>1
  <2>3. QED
    BY <1>1, <2>2, RangeOfSeq
<1>4. ASSUME NEW x \in Usb!Range(t)
      PROVE  x \in Usb!Range(s \o t)
  <2>1. PICK k \in 1 .. Len(t) : x = t[k]
    BY RangeOfSeq
  <2>2. Len(s) + k \in 1 .. Len(s \o t) /\ (s \o t)[Len(s) + k] = x
    BY <1>1, <2>1
  <2>3. QED
    BY <1>1, <2>2, RangeOfSeq
<1>5. \A k \in Len(s) + 1 .. Len(s) + Len(t) : k - Len(s) \in 1 .. Len(t)
  BY <1>1
<1>6. QED
  BY <1>1, <1>2, <1>3, <1>4, <1>5

LEMMA AscConcat ==
    ASSUME NEW s \in Seq(Nat), NEW t \in Seq(Nat), Asc(s), Asc(t), Before(Usb!Range(s), Usb!Range(t))
    PROVE  Asc(s \o t)
<1> SUFFICES ASSUME NEW j \in 1 .. Len(s) + Len(t), NEW k \in 1 .. Len(s) + Len(t), j < k
             PROVE  (s \o t)[j] < (s \o t)[k]
  BY RangeConcat DEF Asc
<1>1. Len(s) \in Nat /\ Len(t) \in Nat
  OBVIOUS
<1>2. CASE k <= Len(s)
  <2>1. j \in 1 .. Len(s) /\ k \in 1 .. Len(s)
    BY <1>1, <1>2
  <2>2. QED
    BY <2>1, RangeConcat DEF Asc
<1>3. CASE j <= Len(s) /\ ~ (k <= Len(s))
  <2>1. j \in 1 .. Len(s) /\ k \in Len(s) + 1 .. Len(s) + Len(t)
    BY <1>1, <1>3
  <2>2. (s \o t)[j] = s[j] /\ (s \o t)[k] = t[k - Len(s)] /\ k - Len(s) \in 1 .. Len(t)
    BY <2>1, RangeConcat
  <2>3. QED
    BY <2>1, <2>2, RangeOfSeq DEF Before
<1>4. CASE ~ (j <= Len(s))
  <2>1. j \in Len(s) + 1 .. Len(s) + Len(t) /\ k \in Len(s) + 1 .. Len(s) + Len(t)
    BY <1>1, <1>4
  <2>2. /\ (s \o t)[j] = t[j - Len(s)] /\ j - Len(s) \in 1 .. Len(t)
        /\ (s \o t)[k] = t[k - Len(s)] /\ k - Len(s) \in 1 .. Len(t)
    BY <2>1, RangeConcat
  <2>3. j - Len(s) < k - Len(s)
    BY <1>1
  <2>4. QED
    BY <2>2, <2>3 DEF Asc
<1>5. QED
  BY <1>1, <1>2, <1>3, <1>4

\* The units in URBs.
Units(q) == UNION { Usb!Range(q[k]) : k \in 1 .. Len(q) }

\* URBs of which no two hold the same unit, each with its units in order.
Apart(q) == /\ \A k \in 1 .. Len(q) : Asc(q[k])
            /\ \A j, k \in 1 .. Len(q) : j # k => Usb!Range(q[j]) \cap Usb!Range(q[k]) = {}

\* URBs whose units are in order from the first URB to the last.
InOrder(q) == \A j, k \in 1 .. Len(q) : j < k => Before(Usb!Range(q[j]), Usb!Range(q[k]))

Urbs == Seq(Seq(Nat))

LEMMA UnitsOf ==
    ASSUME NEW q \in Urbs
    PROVE  /\ Units(q) \subseteq Nat
           /\ \A x : x \in Units(q) <=> \E k \in 1 .. Len(q) : x \in Usb!Range(q[k])
<1>1. \A k \in 1 .. Len(q) : q[k] \in Seq(Nat)
  BY DEF Urbs
<1>2. \A k \in 1 .. Len(q) : Usb!Range(q[k]) \subseteq Nat
  BY <1>1, RangeOfSeq
<1>3. QED
  BY <1>2, Zenon DEF Units

LEMMA UrbsTail ==
    ASSUME NEW q \in Urbs, Apart(q), q # << >>
    PROVE  /\ Head(q) \in Seq(Nat) /\ Asc(Head(q)) /\ Tail(q) \in Urbs /\ Apart(Tail(q))
           /\ Len(Tail(q)) = Len(q) - 1
           /\ Usb!Range(Head(q)) \subseteq Units(q)
           /\ Units(Tail(q)) = Units(q) \ Usb!Range(Head(q))
           /\ InOrder(q) => InOrder(Tail(q)) /\ Before(Usb!Range(Head(q)), Units(Tail(q)))
<1>1. /\ Len(q) \in Nat /\ Len(q) >= 1 /\ Head(q) = q[1] /\ q[1] \in Seq(Nat)
      /\ Tail(q) \in Urbs /\ Len(Tail(q)) = Len(q) - 1
      /\ \A k \in 1 .. Len(q) - 1 : Tail(q)[k] = q[k + 1] /\ k + 1 \in 1 .. Len(q)
  BY DEF Urbs
<1>2. Apart(Tail(q))
  <2>1. ASSUME NEW k \in 1 .. Len(q) - 1
        PROVE  Asc(Tail(q)[k])
    BY <1>1 DEF Apart
  <2>2. ASSUME NEW j \in 1 .. Len(q) - 1, NEW k \in 1 .. Len(q) - 1, j # k
        PROVE  Usb!Range(Tail(q)[j]) \cap Usb!Range(Tail(q)[k]) = {}
    <3>1. j + 1 # k + 1 /\ j + 1 \in 1 .. Len(q) /\ k + 1 \in 1 .. Len(q)
      BY <1>1, <2>2
    <3>2. QED
      BY <1>1, <3>1 DEF Apart
  <2>3. QED
    BY <1>1, <2>1, <2>2 DEF Apart
<1>3. ASSUME NEW x
      PROVE  x \in Units(Tail(q)) <=> \E k \in 2 .. Len(q) : x \in Usb!Range(q[k])
  <2>1. ASSUME NEW k \in 2 .. Len(q), x \in Usb!Range(q[k])
        PROVE  x \in Units(Tail(q))
    <3>1. k - 1 \in 1 .. Len(Tail(q)) /\ k - 1 + 1 = k
      BY <1>1
    <3>2. x \in Usb!Range(Tail(q)[k - 1])
      BY <1>1, <2>1, <3>1
    <3>3. QED
      BY <1>1, <3>1, <3>2, UnitsOf
  <2>2. ASSUME x \in Units(Tail(q))
        PROVE  \E k \in 2 .. Len(q) : x \in Usb!Range(q[k])
    <3>1. PICK k \in 1 .. Len(Tail(q)) : x \in Usb!Range(Tail(q)[k])
      BY <1>1, <2>2, UnitsOf
    <3>2. k + 1 \in 2 .. Len(q) /\ x \in Usb!Range(q[k + 1])
      BY <1>1, <3>1
    <3>3. QED
      BY <3>2
  <2>3. QED
    BY <2>1, <2>2
<1>4. Usb!Range(Head(q)) \subseteq Units(q) /\ 1 \in 1 .. Len(q)
  BY <1>1, UnitsOf
<1>5. Units(Tail(q)) = Units(q) \ Usb!Range(Head(q))
  <2>1. ASSUME NEW x \in Units(Tail(q))
        PROVE  x \in Units(q) /\ x \notin Usb!Range(Head(q))
    <3>1. PICK k \in 2 .. Len(q) : x \in Usb!Range(q[k])
      BY <1>3, <2>1
    <3>2. k \in 1 .. Len(q) /\ k # 1
      BY <1>1
    <3>3. Usb!Range(q[1]) \cap Usb!Range(q[k]) = {}
      BY <1>4, <3>2 DEF Apart
    <3>4. QED
      BY <1>1, <3>1, <3>2, <3>3, UnitsOf
  <2>2. ASSUME NEW x \in Units(q), x \notin Usb!Range(Head(q))
        PROVE  x \in Units(Tail(q))
    <3>1. PICK k \in 1 .. Len(q) : x \in Usb!Range(q[k])
      BY UnitsOf
    <3>2. k \in 2 .. Len(q)
      BY <1>1, <2>2, <3>1
    <3>3. QED
      BY <1>3, <3>1, <3>2
  <2>3. QED
    BY <2>1, <2>2
<1>6. ASSUME InOrder(q)
      PROVE  InOrder(Tail(q)) /\ Before(Usb!Range(Head(q)), Units(Tail(q)))
  <2>1. ASSUME NEW j \in 1 .. Len(q) - 1, NEW k \in 1 .. Len(q) - 1, j < k
        PROVE  Before(Usb!Range(Tail(q)[j]), Usb!Range(Tail(q)[k]))
    <3>1. j + 1 < k + 1 /\ j + 1 \in 1 .. Len(q) /\ k + 1 \in 1 .. Len(q)
      BY <1>1, <2>1
    <3>2. QED
      BY <1>1, <1>6, <3>1 DEF InOrder
  <2>2. ASSUME NEW x \in Usb!Range(Head(q)), NEW y \in Units(Tail(q))
        PROVE  x < y
    <3>1. PICK k \in 2 .. Len(q) : y \in Usb!Range(q[k])
      BY <1>3
    <3>2. k \in 1 .. Len(q) /\ 1 < k
      BY <1>1
    <3>3. Before(Usb!Range(q[1]), Usb!Range(q[k]))
      BY <1>4, <1>6, <3>2 DEF InOrder
    <3>4. QED
      BY <1>1, <3>1, <3>3 DEF Before
  <2>3. QED
    BY <1>1, <2>1, <2>2 DEF InOrder, Before
<1>7. QED
  BY <1>1, <1>2, <1>4, <1>5, <1>6 DEF Apart

LEMMA UrbsAppend ==
    ASSUME NEW q \in Urbs, Apart(q), NEW s \in Seq(Nat), Asc(s), Usb!Range(s) \cap Units(q) = {}
    PROVE  /\ Append(q, s) \in Urbs /\ Apart(Append(q, s)) /\ Len(Append(q, s)) = Len(q) + 1
           /\ Units(Append(q, s)) = Units(q) \cup Usb!Range(s)
           /\ InOrder(q) /\ Before(Units(q), Usb!Range(s)) => InOrder(Append(q, s))
<1>1. /\ Len(q) \in Nat /\ Append(q, s) \in Urbs /\ Len(Append(q, s)) = Len(q) + 1
      /\ \A k \in 1 .. Len(q) : Append(q, s)[k] = q[k]
      /\ Append(q, s)[Len(q) + 1] = s
  BY DEF Urbs
<1>2. \A k \in 1 .. Len(q) + 1 : k = Len(q) + 1 \/ k \in 1 .. Len(q)
  BY <1>1
<1>3. \A k \in 1 .. Len(q) : Usb!Range(q[k]) \subseteq Units(q)
  BY UnitsOf
<1>4. Apart(Append(q, s))
  <2>1. ASSUME NEW k \in 1 .. Len(q) + 1
        PROVE  Asc(Append(q, s)[k])
    BY <1>1, <1>2 DEF Apart
  <2>2. ASSUME NEW j \in 1 .. Len(q) + 1, NEW k \in 1 .. Len(q) + 1, j # k
        PROVE  Usb!Range(Append(q, s)[j]) \cap Usb!Range(Append(q, s)[k]) = {}
    <3>1. CASE j \in 1 .. Len(q) /\ k \in 1 .. Len(q)
      BY <1>1, <2>2, <3>1 DEF Apart
    <3>2. CASE j = Len(q) + 1 /\ k \in 1 .. Len(q)
      BY <1>1, <1>3, <3>2
    <3>3. CASE k = Len(q) + 1 /\ j \in 1 .. Len(q)
      BY <1>1, <1>3, <3>3
    <3>4. QED
      BY <1>2, <2>2, <3>1, <3>2, <3>3
  <2>3. QED
    BY <1>1, <2>1, <2>2 DEF Apart
<1>5. Units(Append(q, s)) = Units(q) \cup Usb!Range(s)
  <2>1. ASSUME NEW x \in Units(Append(q, s))
        PROVE  x \in Units(q) \cup Usb!Range(s)
    <3>1. PICK k \in 1 .. Len(q) + 1 : x \in Usb!Range(Append(q, s)[k])
      BY <1>1, UnitsOf
    <3>2. QED
      BY <1>1, <1>2, <1>3, <3>1
  <2>2. ASSUME NEW x \in Units(q)
        PROVE  x \in Units(Append(q, s))
    <3>1. PICK k \in 1 .. Len(q) : x \in Usb!Range(q[k])
      BY UnitsOf
    <3>2. k \in 1 .. Len(Append(q, s)) /\ x \in Usb!Range(Append(q, s)[k])
      BY <1>1, <3>1
    <3>3. QED
      BY <1>1, <3>2, UnitsOf
  <2>3. ASSUME NEW x \in Usb!Range(s)
        PROVE  x \in Units(Append(q, s))
    <3>1. Len(q) + 1 \in 1 .. Len(Append(q, s)) /\ x \in Usb!Range(Append(q, s)[Len(q) + 1])
      BY <1>1, <2>3
    <3>2. QED
      BY <1>1, <3>1, UnitsOf
  <2>4. QED
    BY <2>1, <2>2, <2>3
<1>6. ASSUME InOrder(q), Before(Units(q), Usb!Range(s)),
             NEW j \in 1 .. Len(q) + 1, NEW k \in 1 .. Len(q) + 1, j < k
      PROVE  Before(Usb!Range(Append(q, s)[j]), Usb!Range(Append(q, s)[k]))
  <2>1. j \in 1 .. Len(q)
    BY <1>1, <1>6
  <2>2. CASE k \in 1 .. Len(q)
    BY <1>1, <1>6, <2>1, <2>2 DEF InOrder
  <2>3. CASE k = Len(q) + 1
    BY <1>1, <1>3, <1>6, <2>1, <2>3 DEF Before
  <2>4. QED
    BY <1>2, <2>2, <2>3
<1>7. QED
  BY <1>1, <1>4, <1>5, <1>6 DEF InOrder

LEMMA EmptyUrbs ==
    ASSUME NEW n \in Nat, NEW q, q = [k \in 1 .. n |-> << >>]
    PROVE  q \in Urbs /\ Len(q) = n /\ Apart(q) /\ InOrder(q) /\ Units(q) = {}
<1>1. << >> \in Seq(Nat) /\ Asc(<< >>) /\ Usb!Range(<< >>) = {}
  BY EmptyAsc
<1>2. q \in Urbs /\ Len(q) = n /\ \A k \in 1 .. n : q[k] = << >>
  BY <1>1 DEF Urbs
<1>3. QED
  BY <1>1, <1>2, Zenon DEF Apart, InOrder, Units, Before

LEMMA NoUrbs == << >> \in Urbs /\ Apart(<< >>) /\ InOrder(<< >>) /\ Units(<< >>) = {}
<1>1. << >> = [k \in 1 .. 0 |-> << >>]
  OBVIOUS
<1>2. QED
  BY <1>1, EmptyUrbs

\* The done URBs for writing, and what is in them.
Done == Seq([ok : BOOLEAN, data : Seq(Nat)])
DataOf(q) == [k \in 1 .. Len(q) |-> q[k].data]

LEMMA SeqElements == \A S : \A s \in Seq(S) : \A k \in 1 .. Len(s) : s[k] \in S
OBVIOUS

LEMMA SameSeq ==
    ASSUME NEW S, NEW s \in Seq(S), NEW t \in Seq(S), Len(s) = Len(t),
           \A k \in 1 .. Len(s) : s[k] = t[k]
    PROVE  s = t
OBVIOUS

LEMMA DataType ==
    ASSUME NEW q \in Done
    PROVE  /\ DataOf(q) \in Urbs /\ Len(DataOf(q)) = Len(q)
           /\ \A k \in 1 .. Len(q) : DataOf(q)[k] = q[k].data
<1>1. \A k \in 1 .. Len(q) : q[k] \in [ok : BOOLEAN, data : Seq(Nat)]
  BY SeqElements, Zenon DEF Done
<1>2. Len(q) \in Nat /\ \A k \in 1 .. Len(q) : q[k].data \in Seq(Nat)
  BY <1>1 DEF Done
<1>3. QED
  BY <1>2 DEF DataOf, Urbs

LEMMA DataTail ==
    ASSUME NEW q \in Done, q # << >>
    PROVE  /\ Tail(q) \in Done /\ DataOf(Tail(q)) = Tail(DataOf(q)) /\ DataOf(q) # << >>
           /\ Head(DataOf(q)) = Head(q).data /\ Len(Tail(q)) = Len(q) - 1
<1>1. /\ Len(q) \in Nat /\ Len(q) >= 1 /\ Head(q) = q[1] /\ Tail(q) \in Done
      /\ Len(Tail(q)) = Len(q) - 1
      /\ \A k \in 1 .. Len(q) - 1 : Tail(q)[k] = q[k + 1] /\ k + 1 \in 1 .. Len(q)
  BY DEF Done
<1>2. /\ DataOf(q) \in Seq(Seq(Nat)) /\ Len(DataOf(q)) = Len(q)
      /\ DataOf(Tail(q)) \in Seq(Seq(Nat)) /\ Len(DataOf(Tail(q))) = Len(q) - 1
      /\ \A k \in 1 .. Len(q) : DataOf(q)[k] = q[k].data
      /\ \A k \in 1 .. Len(q) - 1 : DataOf(Tail(q))[k] = q[k + 1].data
  <2>1. /\ DataOf(Tail(q)) \in Urbs /\ Len(DataOf(Tail(q))) = Len(Tail(q))
        /\ \A k \in 1 .. Len(Tail(q)) : DataOf(Tail(q))[k] = Tail(q)[k].data
    BY <1>1, DataType
  <2>2. QED
    BY <1>1, <2>1, DataType DEF Urbs
<1> HIDE DEF DataOf
<1>3. /\ DataOf(q) # << >> /\ Head(DataOf(q)) = DataOf(q)[1] /\ 1 \in 1 .. Len(q)
      /\ Tail(DataOf(q)) \in Seq(Seq(Nat)) /\ Len(Tail(DataOf(q))) = Len(q) - 1
      /\ \A k \in 1 .. Len(q) - 1 : Tail(DataOf(q))[k] = DataOf(q)[k + 1]
  BY <1>1, <1>2
<1>4. \A k \in 1 .. Len(q) - 1 : DataOf(Tail(q))[k] = Tail(DataOf(q))[k]
  BY <1>1, <1>2, <1>3
<1>5. DataOf(Tail(q)) = Tail(DataOf(q))
  BY <1>2, <1>3, <1>4, SameSeq
<1>6. QED
  BY <1>1, <1>2, <1>3, <1>5

LEMMA DataAppend ==
    ASSUME NEW q \in Done, NEW r \in [ok : BOOLEAN, data : Seq(Nat)]
    PROVE  /\ Append(q, r) \in Done /\ DataOf(Append(q, r)) = Append(DataOf(q), r.data)
           /\ Len(Append(q, r)) = Len(q) + 1
<1>1. /\ Len(q) \in Nat /\ Append(q, r) \in Done /\ Len(Append(q, r)) = Len(q) + 1
      /\ \A k \in 1 .. Len(q) : Append(q, r)[k] = q[k]
      /\ Append(q, r)[Len(q) + 1] = r /\ r.data \in Seq(Nat)
  BY DEF Done
<1>2. /\ DataOf(q) \in Seq(Seq(Nat)) /\ Len(DataOf(q)) = Len(q)
      /\ DataOf(Append(q, r)) \in Seq(Seq(Nat)) /\ Len(DataOf(Append(q, r))) = Len(q) + 1
      /\ \A k \in 1 .. Len(q) : DataOf(q)[k] = q[k].data
      /\ \A k \in 1 .. Len(q) + 1 : DataOf(Append(q, r))[k] = Append(q, r)[k].data
  BY <1>1, DataType DEF Urbs
<1> HIDE DEF DataOf
<1>3. /\ Append(DataOf(q), r.data) \in Seq(Seq(Nat))
      /\ Len(Append(DataOf(q), r.data)) = Len(q) + 1
      /\ \A k \in 1 .. Len(q) : Append(DataOf(q), r.data)[k] = DataOf(q)[k]
      /\ Append(DataOf(q), r.data)[Len(q) + 1] = r.data
  BY <1>1, <1>2
<1>4. ASSUME NEW k \in 1 .. Len(q) + 1
      PROVE  DataOf(Append(q, r))[k] = Append(DataOf(q), r.data)[k]
  <2>1. CASE k = Len(q) + 1
    BY <1>1, <1>2, <1>3, <2>1
  <2>2. CASE k # Len(q) + 1
    <3>1. k \in 1 .. Len(q)
      BY <1>1, <2>2
    <3>2. QED
      BY <1>1, <1>2, <1>3, <3>1
  <2>3. QED
    BY <2>1, <2>2
<1>5. DataOf(Append(q, r)) = Append(DataOf(q), r.data)
  BY <1>1, <1>2, <1>3, <1>4
<1>6. QED
  BY <1>1, <1>5

-----------------------------------------------------------------------------
\* How often x is in a sequence.
Places(s, x) == { k \in 1 .. Len(s) : s[k] = x }
Count(s, x) == Cardinality(Places(s, x))

LEMMA PlacesFinite ==
    ASSUME NEW S, NEW s \in Seq(S), NEW x
    PROVE  IsFiniteSet(Places(s, x)) /\ Count(s, x) \in Nat
<1>1. Len(s) \in Nat /\ Places(s, x) \in SUBSET (1 .. Len(s))
  BY DEF Places
<1>2. IsFiniteSet(1 .. Len(s))
  BY <1>1, FS_Interval
<1>3. QED
  BY <1>1, <1>2, FS_Subset, FS_CardinalityType DEF Count

LEMMA CountNone == ASSUME NEW x PROVE Count(<< >>, x) = 0
<1>1. Places(<< >>, x) = {}
  BY DEF Places
<1>2. QED
  BY <1>1, FS_EmptySet DEF Count

LEMMA CountAppend ==
    ASSUME NEW S, NEW s \in Seq(S), NEW e \in S, NEW x
    PROVE  Count(Append(s, e), x) = Count(s, x) + (IF e = x THEN 1 ELSE 0)
<1>1. /\ Len(s) \in Nat /\ Append(s, e) \in Seq(S) /\ Len(Append(s, e)) = Len(s) + 1
      /\ \A k \in 1 .. Len(s) : Append(s, e)[k] = s[k]
      /\ Append(s, e)[Len(s) + 1] = e
  OBVIOUS
<1>2. \A k \in 1 .. Len(s) + 1 : k = Len(s) + 1 \/ k \in 1 .. Len(s)
  BY <1>1
<1>3. Len(s) + 1 \notin Places(s, x) /\ Len(s) + 1 \in 1 .. Len(s) + 1
  BY <1>1 DEF Places
<1>4. \A k \in 1 .. Len(s) : k \in 1 .. Len(s) + 1
  BY <1>1
<1>5. CASE e = x
  <2>1. Places(Append(s, e), x) = Places(s, x) \cup {Len(s) + 1}
    BY <1>1, <1>2, <1>3, <1>4, <1>5, Zenon DEF Places
  <2>2. QED
    BY <1>3, <1>5, <2>1, PlacesFinite, FS_AddElement DEF Count
<1>6. CASE e # x
  <2>1. Places(Append(s, e), x) = Places(s, x)
    BY <1>1, <1>2, <1>4, <1>6, Zenon DEF Places
  <2>2. QED
    BY <1>6, <2>1, PlacesFinite DEF Count
<1>7. QED
  BY <1>5, <1>6

LEMMA CountTail ==
    ASSUME NEW S, NEW s \in Seq(S), s # << >>, NEW x
    PROVE  /\ Count(Tail(s), x) = Count(s, x) - (IF Head(s) = x THEN 1 ELSE 0)
           /\ Head(s) = x => Count(s, x) >= 1
<1> DEFINE Rest == Places(s, x) \ {1}
<1>1. /\ Len(s) \in Nat /\ Len(s) >= 1 /\ Head(s) = s[1] /\ Tail(s) \in Seq(S)
      /\ Len(Tail(s)) = Len(s) - 1
      /\ \A k \in 1 .. Len(s) - 1 : Tail(s)[k] = s[k + 1]
  OBVIOUS
<1>2. IsFiniteSet(Places(s, x)) /\ IsFiniteSet(Places(Tail(s), x))
  BY <1>1, PlacesFinite
<1>3. Cardinality(Places(Tail(s), x)) = Cardinality(Rest)
  <2> DEFINE f == [k \in Places(Tail(s), x) |-> k + 1]
  <2>1. \A k \in Places(Tail(s), x) : k \in 1 .. Len(s) - 1 /\ s[k + 1] = x
    BY <1>1 DEF Places
  <2>2. \A k \in Places(Tail(s), x) : k + 1 \in Rest
    <3>1. \A k \in 1 .. Len(s) - 1 : k + 1 \in 1 .. Len(s) /\ k + 1 # 1
      BY <1>1
    <3>2. QED
      BY <2>1, <3>1, Zenon DEF Places
  <2>3. ASSUME NEW k \in Rest
        PROVE  k - 1 \in Places(Tail(s), x) /\ k = (k - 1) + 1
    <3>1. k \in 1 .. Len(s) /\ s[k] = x /\ k # 1
      BY DEF Places
    <3>2. k - 1 \in 1 .. Len(s) - 1 /\ k = (k - 1) + 1
      BY <1>1, <3>1
    <3>3. Tail(s)[k - 1] = x
      BY <1>1, <3>1, <3>2
    <3>4. QED
      BY <1>1, <3>2, <3>3 DEF Places
  <2>4. ASSUME NEW j \in Places(Tail(s), x), NEW k \in Places(Tail(s), x), j + 1 = k + 1
        PROVE  j = k
    BY <2>1, <2>4
  <2> HIDE DEF Rest
  <2>5. f \in Bijection(Places(Tail(s), x), Rest)
    <3>1. f \in [Places(Tail(s), x) -> Rest]
      BY <2>2
    <3>2. \A j, k \in Places(Tail(s), x) : f[j] = f[k] => j = k
      BY <2>4
    <3>3. \A k \in Rest : \E j \in Places(Tail(s), x) : f[j] = k
      BY <2>3
    <3>4. QED
      BY <3>1, <3>2, <3>3, Zenon DEF Bijection, Injection, Surjection, IsInjective
  <2>6. QED
    BY <1>2, <2>5, FS_Bijection DEF ExistsBijection
<1>4. Head(s) = x <=> 1 \in Places(s, x)
  BY <1>1 DEF Places
<1>5. /\ Cardinality(Rest) = Cardinality(Places(s, x)) - (IF Head(s) = x THEN 1 ELSE 0)
      /\ Cardinality(Rest) \in Nat /\ Cardinality(Places(s, x)) \in Nat
  BY <1>2, <1>4, FS_RemoveElement, FS_CardinalityType
<1>6. QED
  BY <1>3, <1>5 DEF Count

-----------------------------------------------------------------------------
LEMMA FirstOfIs ==
    ASSUME NEW S \in SUBSET Nat, S # {}
    PROVE  Usb!FirstOf(S) \in S
BY Smallest DEF Usb!FirstOf

\* What moves which of the variables of the data.
inFlow  == << got, in_ring, inDone, lostIn, sent >>
outFlow == << received, sending, out_ring, outq, outDone, lostOut, written, fails >>
data    == << dq, Usb!inp, Usb!outp, Usb!inb, Usb!outb >>

LEMMA ProcessingMoves ==
    Usb!Processing => /\ UNCHANGED << data, ready >>
                      /\ dpc' = dpc \/ (ppc = "create" /\ dpc' = "start")
                      /\ port' = "enabled" => port = "enabled" \/ ppc = "portreset"
<1> SUFFICES ASSUME Usb!Processing
             PROVE  /\ UNCHANGED << data, ready >>
                    /\ dpc' = dpc \/ (ppc = "create" /\ dpc' = "start")
                    /\ port' = "enabled" => port = "enabled" \/ ppc = "portreset"
  OBVIOUS
<1> USE DEF data, Usb!bits
<1>1. CASE Usb!PowerOn
  BY <1>1 DEF Usb!PowerOn
<1>2. CASE Usb!LoopReceive
  BY <1>2 DEF Usb!LoopReceive, Usb!HandleEvent
<1>3. CASE Usb!LoopEnds
  BY <1>3 DEF Usb!LoopEnds
<1>4. CASE Usb!PortReset
  BY <1>4 DEF Usb!PortReset
<1>5. CASE Usb!EnqueueRequest
  BY <1>5 DEF Usb!EnqueueRequest
<1>6. CASE Usb!AwaitAnswer
  BY <1>6 DEF Usb!AwaitAnswer, Usb!HandleEvent
<1>7. CASE Usb!AnswerTimeout
  BY <1>7 DEF Usb!AnswerTimeout
<1>8. CASE Usb!CreateDataTask
  BY <1>8 DEF Usb!CreateDataTask
<1>9. CASE Usb!ResetDriver
  BY <1>9 DEF Usb!ResetDriver
<1>10. CASE Usb!KillWait
  BY <1>10 DEF Usb!KillWait
<1>11. CASE Usb!SwallowEvent
  BY <1>11 DEF Usb!SwallowEvent, Usb!Swallowed, Usb!HandleEvent, Usb!proc
<1>12. CASE Usb!DropPipe
  BY <1>12 DEF Usb!DropPipe
<1>13. CASE Usb!Recover
  BY <1>13 DEF Usb!Recover, Usb!Recovered
<1>14. CASE Usb!Deinit
  BY <1>14 DEF Usb!Deinit
<1>15. QED
  BY <1>1, <1>2, <1>3, <1>4, <1>5, <1>6, <1>7, <1>8, <1>9, <1>10, <1>11, <1>12,
     <1>13, <1>14, Zenon DEF Usb!Processing

\* The steps of the port, of requests and of the caller leave the data alone.
LEMMA OtherMoves ==
    Usb!Plug \/ Usb!Connected \/ Usb!Unplug \/ Usb!RequestDone \/ Usb!DriverDelete \/ UNCHANGED Usb!vars
        => /\ UNCHANGED << data, ready, dpc >>
           /\ port' = "enabled" => port = "enabled"
<1>1. Usb!Plug \/ Usb!Connected \/ Usb!RequestDone \/ Usb!DriverDelete \/ UNCHANGED Usb!vars
          => UNCHANGED << data, ready, dpc, port >>
  BY Zenon DEF Usb!Plug, Usb!Connected, Usb!RequestDone, Usb!DriverDelete, Usb!vars, data,
               Usb!bits
<1>2. Usb!Unplug => UNCHANGED << data, ready, dpc >> /\ (port' = "enabled" => port = "enabled")
  BY DEF Usb!Unplug, data, Usb!bits
<1>3. QED
  BY <1>1, <1>2

\* The four ways the steps of the system move the data.
Idle == /\ UNCHANGED << data, ready >>
        /\ dpc' = dpc \/ (ppc = "create" /\ dpc' = "start")
        /\ port' = "enabled" => port = "enabled" \/ ppc = "portreset"

LEMMA DataMoves ==
    [Usb!Next]_Usb!vars => Idle \/ Usb!InTransfer \/ (\E ok \in BOOLEAN : Usb!OutTransfer(ok))
                        \/ Usb!DataTask \/ Usb!Reader \/ Usb!Writer
<1>1. UNCHANGED << data, ready >> /\ dpc' = dpc /\ (port' = "enabled" => port = "enabled") => Idle
  BY Zenon DEF Idle
<1>2. UNCHANGED << data, ready, dpc >> => UNCHANGED << data, ready >> /\ dpc' = dpc
  OBVIOUS
<1>3. Usb!Processing => Idle
  BY ProcessingMoves, Zenon DEF Idle
<1>4. Usb!Plug \/ Usb!Connected \/ Usb!Unplug \/ Usb!RequestDone \/ Usb!DriverDelete \/ UNCHANGED Usb!vars => Idle
  BY <1>1, <1>2, OtherMoves, Zenon
<1>5. QED
  BY <1>3, <1>4, Zenon DEF Usb!Next, Usb!Device

LEMMA EventAdded ==
    ASSUME NEW q \in Seq({"in", "out"}), NEW e \in {"in", "out"}
    PROVE  /\ Append(q, e) \in Seq({"in", "out"})
           /\ Count(Append(q, e), "in") = Count(q, "in") + (IF e = "in" THEN 1 ELSE 0)
           /\ Count(Append(q, e), "out") = Count(q, "out") + (IF e = "out" THEN 1 ELSE 0)
<1>1. ASSUME NEW x
      PROVE  Count(Append(q, e), x) = Count(q, x) + (IF e = x THEN 1 ELSE 0)
  BY CountAppend
<1>2. QED
  BY <1>1

LEMMA UrbAdded ==
    ASSUME NEW q \in Urbs, NEW s \in Seq(Nat)
    PROVE  Append(q, s) \in Urbs
BY DEF Urbs

LEMMA HeadAndTail ==
    ASSUME NEW S, NEW s \in Seq(S), s # << >>
    PROVE  Tail(s) \in Seq(S) /\ Len(Tail(s)) = Len(s) - 1 /\ Head(s) \in S
OBVIOUS

LEMMA DoneTaken ==
    ASSUME NEW q \in Done, q # << >>
    PROVE  Tail(q) \in Done /\ Len(Tail(q)) = Len(q) - 1 /\ Head(q).data \in Seq(Nat)
<1>1. Tail(q) \in Done /\ Len(Tail(q)) = Len(q) - 1 /\ Head(q) \in [ok : BOOLEAN, data : Seq(Nat)]
  BY HeadAndTail, Zenon DEF Done
<1>2. QED
  BY <1>1

-----------------------------------------------------------------------------
(* The types and counters of the rings, and the events of the transfers. *)

Lengths ==
    /\ in_ring \in Seq(Nat) /\ out_ring \in Seq(Nat) /\ sending \in Seq(Nat)
    /\ in_len \in Int /\ out_len \in Int /\ popped \in Nat
    /\ rpc \in {"idle", "pop", "count", "again", "countlast"}
    /\ rpc \notin {"count", "countlast"} => popped = 0
    /\ dpc # "outcount" => sending = << >>
    /\ Usb!LengthsAccount

\* An event of a transfer waits for each done URB; the data task has taken the one
\* whose data it is about to store.
Events ==
    /\ dq \in Seq({"in", "out"}) /\ inDone \in Seq(Nat) /\ outDone \in Done /\ outq \in Urbs
    /\ Count(dq, "in") + (IF dpc = "push" THEN 1 ELSE 0) = Len(inDone)
    /\ Count(dq, "out") = Len(outDone)
    /\ inFree \in Nat /\ written \in Nat /\ sent \in Nat
    /\ dpc \in {"none", "start", "pipes"} =>
           inFree = 0 /\ inDone = << >> /\ outq = << >> /\ outDone = << >> /\ dq = << >>

LEMMA LengthsInit == Usb!Init => Lengths
BY EmptyAsc DEF Usb!Init, Lengths, Usb!LengthsAccount

LEMMA EventsInit == Usb!Init => Events
<1>1. << >> \in Done /\ << >> \in Urbs /\ << >> \in Seq({"in", "out"})
  BY DEF Done, Urbs
<1>2. QED
  BY <1>1, CountNone, EmptyAsc DEF Usb!Init, Events

LEMMA EventsStep == Usb!CdcAssumption /\ CdcCtl /\ Lengths /\ Events /\ [Usb!Next]_Usb!vars => Events'
<1> SUFFICES ASSUME Usb!CdcAssumption, CdcCtl, Lengths, Events, [Usb!Next]_Usb!vars
             PROVE  Events'
  OBVIOUS
<1>1. CASE Idle
  BY <1>1 DEF Idle, data, Usb!inp, Usb!outp, Usb!inb, Usb!outb, Events, CdcCtl
<1>2. CASE Usb!InTransfer
  <2>1. /\ inFree > 0 /\ sent' = sent + 1 /\ inFree' = inFree - 1
        /\ inDone' = Append(inDone, sent + 1) /\ dq' = Append(dq, "in")
        /\ UNCHANGED << dpc, outq, outDone, written >>
    BY <1>2 DEF Usb!InTransfer, Usb!outp, Usb!outb
  <2>2. dpc \notin {"none", "start", "pipes"} /\ inFree' \in Nat /\ sent' \in Nat
    BY <2>1 DEF Events
  <2>3. inDone' \in Seq(Nat) /\ Len(inDone') = Len(inDone) + 1 /\ dq' \in Seq({"in", "out"})
    BY <2>1 DEF Events
  <2>4. Count(dq', "in") = Count(dq, "in") + 1 /\ Count(dq', "out") = Count(dq, "out")
    BY <2>1, EventAdded DEF Events
  <2>5. Count(dq, "in") \in Nat /\ Count(dq, "out") \in Nat
    BY PlacesFinite DEF Events
  <2>6. QED
    BY <2>1, <2>2, <2>3, <2>4, <2>5 DEF Events
<1>3. ASSUME NEW ok \in BOOLEAN, Usb!OutTransfer(ok)
      PROVE  Events'
  <2> DEFINE r == [ok |-> ok, data |-> IF ok THEN << >> ELSE Head(outq)]
  <2>1. /\ outq # << >> /\ outq' = Tail(outq) /\ outDone' = Append(outDone, r)
        /\ dq' = Append(dq, "out")
        /\ UNCHANGED << dpc, inFree, inDone, written, sent >>
    BY <1>3 DEF Usb!OutTransfer, Usb!inp, Usb!inb
  <2>2. dpc \notin {"none", "start", "pipes"}
    BY <2>1 DEF Events
  <2>3. outq' \in Urbs /\ Head(outq) \in Seq(Nat) /\ dq' \in Seq({"in", "out"})
    BY <2>1 DEF Events, Urbs
  <2>4. r \in [ok : BOOLEAN, data : Seq(Nat)]
    BY <2>3, EmptyAsc
  <2>5. outDone' \in Done /\ Len(outDone') = Len(outDone) + 1
    <3> HIDE DEF r
    <3>1. QED
      BY <2>1, <2>4, DataAppend DEF Events
  <2>6. Count(dq', "out") = Count(dq, "out") + 1 /\ Count(dq', "in") = Count(dq, "in") + 0
    <3>1. dq \in Seq({"in", "out"}) /\ dq' = Append(dq, "out")
      BY <2>1 DEF Events
    <3>2. QED
      BY <3>1, EventAdded
  <2>7. QED
    BY <2>1, <2>2, <2>3, <2>5, <2>6, PlacesFinite DEF Events
<1>4. CASE Usb!DataTask
  <2>1. CASE Usb!DataStart
    BY <2>1 DEF Usb!DataStart, Events, Usb!inp, Usb!outp, Usb!inb, Usb!outb
  <2>2. CASE Usb!DataReady
    <3>1. /\ dpc = "pipes" /\ dpc' = "run" /\ UNCHANGED << dq, inDone, outDone, written, sent >>
          /\ \/ inFree' = InUrbs /\ outq' = [k \in 1 .. OutUrbs |-> << >>]
             \/ UNCHANGED << inFree, outq >>
      BY <2>2 DEF Usb!DataReady, Usb!inb, Usb!outb
    <3>2. InUrbs \in Nat /\ OutUrbs \in Nat
      BY DEF Usb!CdcAssumption
    <3>3. inFree' \in Nat /\ outq' \in Urbs
      BY <3>1, <3>2, EmptyUrbs DEF Events
    <3>4. QED
      BY <3>1, <3>3 DEF Events
  <2>3. CASE Usb!TakeIn
    <3>1. /\ dpc = "run" /\ dpc' = "push" /\ dq # << >> /\ Head(dq) = "in" /\ dq' = Tail(dq)
          /\ UNCHANGED << inFree, inDone, outq, outDone, written, sent >>
      BY <2>3 DEF Usb!TakeIn, Usb!Runs, Usb!Received, Usb!inp, Usb!outp, Usb!inb, Usb!outb
    <3>2. /\ Count(dq', "in") = Count(dq, "in") - 1 /\ Count(dq', "out") = Count(dq, "out") - 0
          /\ Count(dq, "in") \in Nat /\ Count(dq, "out") \in Nat /\ dq' \in Seq({"in", "out"})
      BY <3>1, CountTail, PlacesFinite DEF Events
    <3>3. QED
      BY <3>1, <3>2 DEF Events
  <2>4. CASE Usb!PushIn \/ Usb!SkipIn
    <3>1. /\ dpc = "push" /\ dpc' \in {"incount", "run"} /\ inDone' = Tail(inDone)
          /\ inFree' = inFree \/ inFree' = inFree + 1
          /\ UNCHANGED << dq, outq, outDone, written, sent >>
      BY <2>4 DEF Usb!PushIn, Usb!SkipIn, Usb!InUrbBack, Usb!inb, Usb!outp, Usb!outb
    <3>2. Count(dq, "in") \in Nat
      BY PlacesFinite DEF Events
    <3>3. inDone # << >> /\ Len(inDone') = Len(inDone) - 1 /\ inDone' \in Seq(Nat)
      BY <3>1, <3>2 DEF Events
    <3>4. QED
      BY <3>1, <3>2, <3>3 DEF Events
  <2>5. CASE Usb!CountIn
    BY <2>5 DEF Usb!CountIn, Usb!InUrbBack, Events, Usb!outp, Usb!outb
  <2>6. CASE Usb!TakeOut
    <3>1. /\ dpc = "run" /\ dq # << >> /\ Head(dq) = "out" /\ dq' = Tail(dq)
          /\ outDone' = Tail(outDone)
          /\ UNCHANGED << inFree, inDone, written, sent >>
      BY <2>6 DEF Usb!TakeOut, Usb!Runs, Usb!Received, Usb!inp, Usb!inb
    <3>2. dpc' \in {"run", "send"} /\ (outq' = outq \/ outq' = Append(outq, Head(outDone).data))
      BY <2>6, <3>1 DEF Usb!TakeOut, Usb!SendNext, Usb!Retried
    <3>3. /\ Count(dq', "out") = Count(dq, "out") - 1 /\ Count(dq', "in") = Count(dq, "in") - 0
          /\ Count(dq, "in") \in Nat /\ Count(dq, "out") \in Nat /\ Count(dq, "out") >= 1
          /\ dq' \in Seq({"in", "out"})
      BY <3>1, CountTail, PlacesFinite DEF Events
    <3>4. outDone # << >>
      BY <3>3, EmptyAsc DEF Events
    <3>5. outDone' \in Done /\ Len(outDone') = Len(outDone) - 1 /\ Head(outDone).data \in Seq(Nat)
      BY <3>1, <3>4, DoneTaken DEF Events
    <3>6. outq' \in Urbs
      BY <3>2, <3>5, UrbAdded DEF Events
    <3>7. QED
      BY <3>1, <3>2, <3>3, <3>5, <3>6 DEF Events
  <2>7. CASE Usb!PollOut \/ Usb!PopNothing \/ Usb!DataKilled
    BY <2>7 DEF Usb!PollOut, Usb!Poll, Usb!Runs, Usb!PopNothing, Usb!DataKilled, Events,
                Usb!inp, Usb!outp, Usb!inb, Usb!outb
  <2>8. CASE Usb!PopOut
    <3>1. /\ dpc = "send" /\ dpc' \in {"send", "outcount"}
          /\ UNCHANGED << dq, inFree, inDone, outq, outDone, written, sent >>
      BY <2>8, Zenon DEF Usb!PopOut, Usb!inp, Usb!inb
    <3>2. QED
      BY <3>1 DEF Events
  <2>9. CASE Usb!CountOut
    <3>1. /\ dpc = "outcount" /\ dpc' = "run"
          /\ outq' = Append(outq, sending) \/ outq' = outq
          /\ UNCHANGED << dq, inFree, inDone, outDone, written, sent >>
      BY <2>9 DEF Usb!CountOut, Usb!inp, Usb!inb
    <3>2. outq' \in Urbs
      BY <3>1, UrbAdded DEF Events, Lengths
    <3>3. QED
      BY <3>1, <3>2 DEF Events
  <2>10. CASE Usb!Close
    <3>1. /\ inFree' = 0 /\ inDone' = << >> /\ outq' = << >> /\ outDone' = << >> /\ dq' = << >>
          /\ dpc' = "none" /\ UNCHANGED << written, sent >>
      BY <2>10 DEF Usb!Close
    <3>2. << >> \in Done /\ << >> \in Urbs /\ << >> \in Seq({"in", "out"})
      BY DEF Done, Urbs
    <3>3. QED
      BY <3>1, <3>2, CountNone, EmptyAsc DEF Events
  <2>11. QED
    BY <1>4, <2>1, <2>2, <2>3, <2>4, <2>5, <2>6, <2>7, <2>8, <2>9, <2>10, Zenon DEF Usb!DataTask
<1>5. CASE Usb!Reader
  <2>1. UNCHANGED << dpc, dq, inFree, inDone, outq, outDone, written, sent >>
    BY <1>5, Zenon DEF Usb!Reader, Usb!ReadEnter, Usb!ReadPop, Usb!ReadCount, Usb!ReadNothing,
                       Usb!drv, Usb!inp, Usb!outp, Usb!outb
  <2>2. QED
    BY <2>1 DEF Events
<1>6. CASE Usb!Writer
  <2>1. /\ UNCHANGED << dpc, dq, inFree, inDone, outq, outDone, sent >>
        /\ written' = written \/ written' = written + 1
    BY <1>6, Zenon DEF Usb!Writer, Usb!WriterGoesOn, Usb!WriteEnter, Usb!WritePush,
                       Usb!WriteCount, Usb!WriteFails,
                       Usb!drv, Usb!inp, Usb!outp, Usb!inb
  <2>2. QED
    BY <2>1 DEF Events
<1>7. QED
  BY <1>1, <1>2, <1>3, <1>4, <1>5, <1>6, DataMoves, Zenon

LEMMA SplitLengths ==
    ASSUME NEW s \in Seq(Nat), NEW n \in 1 .. Len(s)
    PROVE  /\ SubSeq(s, 1, n) \in Seq(Nat) /\ Len(SubSeq(s, 1, n)) = n
           /\ SubSeq(s, n + 1, Len(s)) \in Seq(Nat)
           /\ Len(SubSeq(s, n + 1, Len(s))) = Len(s) - n
OBVIOUS

LEMMA LengthsStep == CdcCtl /\ Lengths /\ Events /\ [Usb!Next]_Usb!vars => Lengths'
<1> SUFFICES ASSUME CdcCtl, Lengths, Events, [Usb!Next]_Usb!vars
             PROVE  Lengths'
  OBVIOUS
<1>1. CASE Idle
  <2>1. /\ UNCHANGED << in_ring, in_len, popped, rpc, out_ring, out_len, sending, wpc >>
        /\ dpc' = dpc \/ (ppc = "create" /\ dpc' = "start")
    BY <1>1, Zenon DEF Idle, data, Usb!outp, Usb!inb, Usb!outb
  <2>2. dpc' = dpc \/ (dpc = "none" /\ dpc' = "start")
    BY <2>1 DEF CdcCtl
  <2>3. QED
    BY <2>1, <2>2 DEF Lengths, Usb!LengthsAccount
<1>2. CASE Usb!InTransfer \/ (\E ok \in BOOLEAN : Usb!OutTransfer(ok))
  <2>1. UNCHANGED << in_ring, in_len, popped, rpc, out_ring, out_len, sending, wpc, dpc >>
    BY <1>2, Zenon DEF Usb!InTransfer, Usb!OutTransfer, Usb!outp, Usb!inb, Usb!outb
  <2>2. QED
    BY <2>1 DEF Lengths, Usb!LengthsAccount
<1>3. CASE Usb!DataTask
  <2>1. CASE Usb!DataStart \/ Usb!DataReady \/ Usb!TakeIn \/ Usb!SkipIn \/ Usb!TakeOut \/ Usb!PollOut \/ Usb!PopNothing
                 \/ Usb!DataKilled \/ Usb!Close
    <3>1. UNCHANGED << in_ring, in_len, popped, rpc, out_ring, out_len, sending, wpc >>
      BY <2>1, Zenon DEF Usb!DataStart, Usb!DataReady, Usb!TakeIn, Usb!SkipIn, Usb!TakeOut,
                         Usb!PollOut, Usb!PopNothing,
                         Usb!DataKilled, Usb!Close, Usb!inp, Usb!outp, Usb!inb, Usb!outb
    <3>2. dpc \notin {"incount", "outcount"} /\ dpc' \notin {"incount", "outcount"}
      BY <2>1 DEF Usb!DataStart, Usb!DataReady, Usb!TakeIn, Usb!SkipIn, Usb!TakeOut,
                  Usb!SendNext, Usb!PollOut, Usb!Poll, Usb!Runs,
                  Usb!PopNothing, Usb!DataKilled, Usb!Close
    <3>3. QED
      BY <3>1, <3>2 DEF Lengths, Usb!LengthsAccount
  <2>2. CASE Usb!PushIn
    <3>1. /\ dpc = "push" /\ dpc' = "incount" /\ in_ring' = Append(in_ring, Head(inDone))
          /\ UNCHANGED << in_len, popped, rpc, out_ring, out_len, sending, wpc >>
      BY <2>2, Zenon DEF Usb!PushIn, Usb!outp, Usb!outb
    <3>2. Count(dq, "in") \in Nat
      BY PlacesFinite DEF Events
    <3>3. inDone \in Seq(Nat) /\ inDone # << >>
      BY <3>1, <3>2 DEF Events
    <3>4. Head(inDone) \in Nat
      BY <3>3, HeadAndTail
    <3>5. in_ring' \in Seq(Nat) /\ Len(in_ring') = Len(in_ring) + 1
      BY <3>1, <3>4 DEF Lengths
    <3>6. QED
      BY <3>1, <3>5 DEF Lengths, Usb!LengthsAccount
  <2>3. CASE Usb!CountIn
    <3>1. /\ dpc = "incount" /\ dpc' = "run" /\ in_len' = in_len + 1
          /\ UNCHANGED << in_ring, popped, rpc, out_ring, out_len, sending, wpc >>
      BY <2>3, Zenon DEF Usb!CountIn, Usb!outp, Usb!outb
    <3>2. QED
      BY <3>1 DEF Lengths, Usb!LengthsAccount
  <2>4. CASE Usb!PopOut
    <3>1. UNCHANGED << in_ring, in_len, popped, rpc, out_len, wpc >> /\ dpc = "send"
      BY <2>4, Zenon DEF Usb!PopOut, Usb!inb
    <3>2. CASE UNCHANGED << dpc, sending, out_ring >>
      BY <3>1, <3>2 DEF Lengths, Usb!LengthsAccount
    <3>3. CASE \E k \in 1 .. Len(out_ring) :
                 /\ sending' = SubSeq(out_ring, 1, k)
                 /\ out_ring' = SubSeq(out_ring, k + 1, Len(out_ring))
                 /\ dpc' = "outcount"
      <4>1. PICK k \in 1 .. Len(out_ring) :
                 /\ sending' = SubSeq(out_ring, 1, k)
                 /\ out_ring' = SubSeq(out_ring, k + 1, Len(out_ring))
                 /\ dpc' = "outcount"
        BY <3>3
      <4>2. /\ sending' \in Seq(Nat) /\ Len(sending') = k
            /\ out_ring' \in Seq(Nat) /\ Len(out_ring') = Len(out_ring) - k
        BY <4>1, SplitLengths DEF Lengths
      <4>3. Len(out_ring) \in Nat /\ Len(sending) = 0
        BY <3>1 DEF Lengths
      <4>4. Len(out_ring') + Len(sending') = Len(out_ring) + Len(sending)
        BY <4>2, <4>3
      <4>5. Usb!LengthsAccount'
        BY <3>1, <4>1, <4>4 DEF Lengths, Usb!LengthsAccount
      <4>6. QED
        BY <3>1, <4>1, <4>2, <4>5 DEF Lengths
    <3>4. QED
      BY <2>4, <3>2, <3>3, Zenon DEF Usb!PopOut
  <2>5. CASE Usb!CountOut
    <3>1. /\ dpc = "outcount" /\ dpc' = "run" /\ out_len' = out_len - Len(sending)
          /\ sending' = << >>
          /\ UNCHANGED << in_ring, in_len, popped, rpc, out_ring, wpc >>
      BY <2>5, Zenon DEF Usb!CountOut, Usb!inb
    <3>2. QED
      BY <3>1, EmptyAsc DEF Lengths, Usb!LengthsAccount
  <2>6. QED
    BY <1>3, <2>1, <2>2, <2>3, <2>4, <2>5, Zenon DEF Usb!DataTask
<1>4. CASE Usb!Reader
  <2>1. UNCHANGED << dpc, out_ring, out_len, sending, wpc >>
    BY <1>4, Zenon DEF Usb!Reader, Usb!ReadEnter, Usb!ReadPop, Usb!ReadCount, Usb!ReadNothing,
                       Usb!drv, Usb!outp, Usb!outb
  <2>2. CASE Usb!ReadEnter
    BY <2>1, <2>2 DEF Usb!ReadEnter, Lengths, Usb!LengthsAccount
  <2>3. CASE Usb!ReadPop
    <3>1. /\ rpc \in {"pop", "again"} /\ rpc' \in {"count", "countlast"} /\ UNCHANGED in_len
      BY <2>3 DEF Usb!ReadPop
    <3>2. PICK k \in 1 .. Len(in_ring) :
              in_ring' = SubSeq(in_ring, k + 1, Len(in_ring)) /\ popped' = k
      BY <2>3, Zenon DEF Usb!ReadPop
    <3>3. in_ring' \in Seq(Nat) /\ Len(in_ring') = Len(in_ring) - k /\ Len(in_ring) \in Nat
      BY <3>2, SplitLengths DEF Lengths
    <3>4. popped = 0 /\ popped' \in Nat /\ Len(in_ring') + popped' = Len(in_ring) + popped
      BY <3>1, <3>2, <3>3 DEF Lengths
    <3>5. Usb!LengthsAccount'
      BY <2>1, <3>1, <3>4 DEF Lengths, Usb!LengthsAccount
    <3>6. QED
      BY <2>1, <3>1, <3>3, <3>4, <3>5 DEF Lengths
  <2>4. CASE Usb!ReadCount
    BY <2>1, <2>4 DEF Usb!ReadCount, Usb!Counted, Lengths, Usb!LengthsAccount
  <2>5. CASE Usb!ReadNothing
    BY <2>1, <2>5 DEF Usb!ReadNothing, Lengths, Usb!LengthsAccount
  <2>6. QED
    BY <1>4, <2>2, <2>3, <2>4, <2>5, Zenon DEF Usb!Reader
<1>5. CASE Usb!Writer
  <2>1. UNCHANGED << dpc, in_ring, in_len, popped, rpc, sending >>
    BY <1>5, Zenon DEF Usb!Writer, Usb!WriterGoesOn, Usb!WriteEnter, Usb!WritePush,
                       Usb!WriteCount, Usb!WriteFails,
                       Usb!drv, Usb!outp, Usb!inb
  <2>2. CASE Usb!WriteEnter \/ Usb!WriteFails
    BY <2>1, <2>2 DEF Usb!WriteEnter, Usb!WriteFails, Lengths, Usb!LengthsAccount
  <2>3. CASE Usb!WritePush
    <3>1. wpc = "push" /\ wpc' = "count" /\ UNCHANGED out_len /\ out_ring' = Append(out_ring, written + 1)
      BY <2>3 DEF Usb!WritePush
    <3>2. written + 1 \in Nat
      BY DEF Events
    <3>3. out_ring' \in Seq(Nat) /\ Len(out_ring') = Len(out_ring) + 1
      BY <3>1, <3>2 DEF Lengths
    <3>4. QED
      BY <2>1, <3>1, <3>3 DEF Lengths, Usb!LengthsAccount
  <2>4. CASE Usb!WriteCount
    BY <2>1, <2>4 DEF Usb!WriteCount, Lengths, Usb!LengthsAccount
  <2>5. QED
    BY <1>5, <2>2, <2>3, <2>4, Zenon DEF Usb!Writer, Usb!WriterGoesOn
<1>6. QED
  BY <1>1, <1>2, <1>3, <1>4, <1>5, DataMoves, Zenon

-----------------------------------------------------------------------------
\* The units of the device: what the reader has, what is in the ring and what has
\* arrived follow one another; the rest was skipped or lost.
InFlow ==
    /\ got \in Seq(Nat) /\ in_ring \in Seq(Nat) /\ inDone \in Seq(Nat) /\ sent \in Nat
    /\ Asc(got) /\ Asc(in_ring) /\ Asc(inDone)
    /\ Before(Usb!Range(got), Usb!Range(in_ring) \cup Usb!Range(inDone))
    /\ Before(Usb!Range(in_ring), Usb!Range(inDone))
    /\ Usb!Range(got) \cup Usb!Range(in_ring) \cup Usb!Range(inDone) \cup lostIn = 1 .. sent
    /\ lostIn \cap (Usb!Range(got) \cup Usb!Range(in_ring) \cup Usb!Range(inDone)) = {}

LEMMA InFlowInit == Usb!Init => InFlow
<1> SUFFICES ASSUME Usb!Init
             PROVE  InFlow
  OBVIOUS
<1>1. got = << >> /\ in_ring = << >> /\ inDone = << >> /\ sent = 0 /\ lostIn = {}
  BY DEF Usb!Init
<1>2. 1 .. 0 = {}
  OBVIOUS
<1>3. QED
  BY <1>1, <1>2, EmptyAsc DEF InFlow, Before

LEMMA InFlowStep == Events /\ InFlow /\ [Usb!Next]_Usb!vars => InFlow'
<1> SUFFICES ASSUME Events, InFlow, [Usb!Next]_Usb!vars
             PROVE  InFlow'
  OBVIOUS
<1>0. ASSUME UNCHANGED inFlow
      PROVE  InFlow'
  BY <1>0 DEF InFlow, inFlow
<1>1. CASE Idle
  BY <1>0, <1>1, Zenon DEF Idle, data, Usb!inp, Usb!inb, inFlow
<1>2. CASE Usb!InTransfer
  <2>1. /\ sent' = sent + 1 /\ inDone' = Append(inDone, sent + 1)
        /\ UNCHANGED << got, in_ring, lostIn >>
    BY <1>2, Zenon DEF Usb!InTransfer
  <2>2. sent \in Nat /\ sent + 1 \in Nat /\ 1 .. sent + 1 = (1 .. sent) \cup {sent + 1}
    BY DEF InFlow
  <2>3. /\ Usb!Range(got) \subseteq 1 .. sent /\ Usb!Range(in_ring) \subseteq 1 .. sent
        /\ Usb!Range(inDone) \subseteq 1 .. sent /\ lostIn \subseteq 1 .. sent
    BY DEF InFlow
  <2>4. \A n \in 1 .. sent : n < sent + 1 /\ n # sent + 1
    BY <2>2
  <2>5. Before(Usb!Range(inDone), {sent + 1})
    BY <2>3, <2>4 DEF Before
  <2>6. inDone' \in Seq(Nat) /\ Asc(inDone') /\ Usb!Range(inDone') = Usb!Range(inDone) \cup {sent + 1}
    BY <2>1, <2>2, <2>5, AscAppend DEF InFlow
  <2>7. /\ Before(Usb!Range(got), Usb!Range(in_ring) \cup Usb!Range(inDone'))
        /\ Before(Usb!Range(in_ring), Usb!Range(inDone'))
    BY <2>3, <2>4, <2>6 DEF InFlow, Before
  <2>8. /\ Usb!Range(got) \cup Usb!Range(in_ring) \cup Usb!Range(inDone') \cup lostIn = 1 .. sent'
        /\ lostIn \cap (Usb!Range(got) \cup Usb!Range(in_ring) \cup Usb!Range(inDone')) = {}
    BY <2>1, <2>2, <2>3, <2>4, <2>6 DEF InFlow
  <2>9. QED
    BY <2>1, <2>2, <2>6, <2>7, <2>8 DEF InFlow
<1>3. CASE \E ok \in BOOLEAN : Usb!OutTransfer(ok)
  BY <1>0, <1>3, Zenon DEF Usb!OutTransfer, Usb!inp, Usb!inb, inFlow
<1>4. CASE Usb!DataTask
  <2>0. ASSUME dpc = "push"
        PROVE  /\ inDone # << >> /\ Head(inDone) \in Nat
               /\ Tail(inDone) \in Seq(Nat) /\ Asc(Tail(inDone))
               /\ Head(inDone) \in Usb!Range(inDone)
               /\ Usb!Range(Tail(inDone)) = Usb!Range(inDone) \ {Head(inDone)}
               /\ Before({Head(inDone)}, Usb!Range(Tail(inDone)))
    <3>1. Count(dq, "in") \in Nat
      BY PlacesFinite DEF Events
    <3>2. inDone # << >>
      BY <2>0, <3>1 DEF Events
    <3>3. QED
      BY <3>2, AscTail, HeadAndTail DEF InFlow
  <2>1. CASE Usb!PushIn
    <3>1. /\ in_ring' = Append(in_ring, Head(inDone)) /\ inDone' = Tail(inDone)
          /\ UNCHANGED << got, lostIn, sent >>
      BY <2>1, Zenon DEF Usb!PushIn
    <3>2. dpc = "push"
      BY <2>1 DEF Usb!PushIn
    <3>3. Before(Usb!Range(in_ring), {Head(inDone)})
      BY <2>0, <3>2 DEF InFlow, Before
    <3>4. in_ring' \in Seq(Nat) /\ Asc(in_ring') /\ Usb!Range(in_ring') = Usb!Range(in_ring) \cup {Head(inDone)}
      BY <2>0, <3>1, <3>2, <3>3, AscAppend DEF InFlow
    <3>5. /\ Usb!Range(in_ring') \cup Usb!Range(inDone') = Usb!Range(in_ring) \cup Usb!Range(inDone)
          /\ Usb!Range(inDone') \subseteq Usb!Range(inDone)
      BY <2>0, <3>1, <3>2, <3>4
    <3>6. Before(Usb!Range(in_ring'), Usb!Range(inDone'))
      BY <2>0, <3>1, <3>2, <3>4, <3>5 DEF InFlow, Before
    <3>7. /\ Before(Usb!Range(got), Usb!Range(in_ring') \cup Usb!Range(inDone'))
          /\ Usb!Range(got) \cup Usb!Range(in_ring') \cup Usb!Range(inDone') \cup lostIn = 1 .. sent
          /\ lostIn \cap (Usb!Range(got) \cup Usb!Range(in_ring') \cup Usb!Range(inDone')) = {}
      BY <3>5 DEF InFlow
    <3>8. QED
      BY <2>0, <3>1, <3>2, <3>4, <3>6, <3>7 DEF InFlow
  <2>2. CASE Usb!SkipIn
    <3>1. /\ lostIn' = lostIn \cup {Head(inDone)} /\ inDone' = Tail(inDone)
          /\ UNCHANGED << got, in_ring, sent >>
      BY <2>2, Zenon DEF Usb!SkipIn
    <3>2. dpc = "push"
      BY <2>2 DEF Usb!SkipIn
    <3>3. /\ Before(Usb!Range(got), Usb!Range(in_ring) \cup Usb!Range(inDone'))
          /\ Before(Usb!Range(in_ring), Usb!Range(inDone'))
      BY <2>0, <3>1, <3>2 DEF InFlow, Before
    <3>4. Head(inDone) \notin Usb!Range(got) \cup Usb!Range(in_ring)
      <4>1. /\ \A x \in Usb!Range(got) \cup Usb!Range(in_ring) : x < Head(inDone)
            /\ Head(inDone) \in Nat
        BY <2>0, <3>2 DEF InFlow, Before
      <4>2. QED
        BY <4>1
    <3>5. /\ Usb!Range(got) \cup Usb!Range(in_ring) \cup Usb!Range(inDone') \cup lostIn' = 1 .. sent
          /\ lostIn' \cap (Usb!Range(got) \cup Usb!Range(in_ring) \cup Usb!Range(inDone')) = {}
      BY <2>0, <3>1, <3>2, <3>4 DEF InFlow
    <3>6. QED
      BY <2>0, <3>1, <3>2, <3>3, <3>5 DEF InFlow
  <2>3. CASE Usb!Close
    <3>1. /\ lostIn' = lostIn \cup Usb!Range(inDone) /\ inDone' = << >>
          /\ UNCHANGED << got, in_ring, sent >>
      BY <2>3, Zenon DEF Usb!Close
    <3>2. ASSUME NEW x \in Usb!Range(inDone)
          PROVE  x \notin Usb!Range(got) \cup Usb!Range(in_ring)
      <4>1. /\ x \in Nat
            /\ \A y \in Usb!Range(got) \cup Usb!Range(in_ring) : y < x
        BY RangeOfSeq DEF InFlow, Before
      <4>2. QED
        BY <4>1
    <3>3. Usb!Range(inDone') = {} /\ Asc(inDone') /\ inDone' \in Seq(Nat)
      BY <3>1, EmptyAsc
    <3>4. QED
      BY <3>1, <3>2, <3>3 DEF InFlow, Before
  <2>4. CASE Usb!DataStart \/ Usb!DataReady \/ Usb!TakeIn \/ Usb!CountIn \/ Usb!TakeOut \/ Usb!PollOut \/ Usb!PopOut
                 \/ Usb!PopNothing \/ Usb!CountOut \/ Usb!DataKilled
    BY <1>0, <2>4, Zenon DEF Usb!DataStart, Usb!DataReady, Usb!TakeIn, Usb!CountIn,
                             Usb!TakeOut, Usb!PollOut, Usb!PopOut,
                             Usb!PopNothing, Usb!CountOut, Usb!DataKilled, Usb!inp, Usb!inb,
                             inFlow
  <2>5. QED
    BY <1>4, <2>1, <2>2, <2>3, <2>4, Zenon DEF Usb!DataTask
<1>5. CASE Usb!Reader
  <2>1. CASE Usb!ReadPop
    <3>1. UNCHANGED << inDone, lostIn, sent >>
      BY <2>1, Zenon DEF Usb!ReadPop, Usb!drv, Usb!inp
    <3>2. PICK k \in 1 .. Len(in_ring) :
              /\ got' = got \o SubSeq(in_ring, 1, k)
              /\ in_ring' = SubSeq(in_ring, k + 1, Len(in_ring))
      BY <2>1, Zenon DEF Usb!ReadPop, Usb!Copied
    <3> DEFINE a == SubSeq(in_ring, 1, k)
    <3>3. /\ a \in Seq(Nat) /\ Asc(a) /\ in_ring' \in Seq(Nat) /\ Asc(in_ring')
          /\ Usb!Range(a) \cup Usb!Range(in_ring') = Usb!Range(in_ring) /\ Before(Usb!Range(a), Usb!Range(in_ring'))
      BY <3>2, AscSplit DEF InFlow
    <3>4. got' = got \o a
      BY <3>2
    <3> HIDE DEF a
    <3>5. Before(Usb!Range(got), Usb!Range(a))
      BY <3>3 DEF InFlow, Before
    <3>6. got' \in Seq(Nat) /\ Asc(got') /\ Usb!Range(got') = Usb!Range(got) \cup Usb!Range(a)
      BY <3>3, <3>4, <3>5, RangeConcat, AscConcat DEF InFlow
    <3>7. /\ Before(Usb!Range(got'), Usb!Range(in_ring') \cup Usb!Range(inDone))
          /\ Before(Usb!Range(in_ring'), Usb!Range(inDone))
      BY <3>3, <3>6 DEF InFlow, Before
    <3>8. /\ Usb!Range(got') \cup Usb!Range(in_ring') = Usb!Range(got) \cup Usb!Range(in_ring)
      BY <3>3, <3>6
    <3>9. QED
      BY <3>1, <3>3, <3>6, <3>7, <3>8 DEF InFlow
  <2>2. CASE Usb!ReadEnter \/ Usb!ReadCount \/ Usb!ReadNothing
    BY <1>0, <2>2, Zenon DEF Usb!ReadEnter, Usb!ReadCount, Usb!ReadNothing, Usb!drv, Usb!inp,
                             inFlow
  <2>3. QED
    BY <1>5, <2>1, <2>2, Zenon DEF Usb!Reader
<1>6. CASE Usb!Writer
  BY <1>0, <1>6, Zenon DEF Usb!Writer, Usb!WriterGoesOn, Usb!WriteEnter, Usb!WritePush,
                           Usb!WriteCount, Usb!WriteFails,
                           Usb!drv, Usb!inp, Usb!inb, inFlow
<1>7. QED
  BY <1>1, <1>2, <1>3, <1>4, <1>5, <1>6, DataMoves, Zenon

LEMMA InFlowAccounts == InFlow => Usb!InAccounts
<1> SUFFICES ASSUME InFlow
             PROVE  Usb!InAccounts
  OBVIOUS
<1> DEFINE front == got \o in_ring
           onWay == front \o inDone
<1>1. front \in Seq(Nat) /\ Asc(front) /\ Usb!Range(front) = Usb!Range(got) \cup Usb!Range(in_ring)
  BY RangeConcat, AscConcat DEF InFlow, Before
<1>2. Before(Usb!Range(front), Usb!Range(inDone))
  BY <1>1 DEF InFlow, Before
<1>3. onWay \in Seq(Nat) /\ Asc(onWay) /\ Usb!Range(onWay) = Usb!Range(front) \cup Usb!Range(inDone)
  <2> HIDE DEF front
  <2>1. QED
    BY <1>1, <1>2, RangeConcat, AscConcat DEF InFlow
<1>4. /\ Usb!Range(onWay) \cup lostIn = 1 .. sent
      /\ Usb!Range(onWay) \cap lostIn = {}
  BY <1>1, <1>3 DEF InFlow
<1>5. QED
  BY <1>3, <1>4 DEF Usb!InAccounts, Asc

\* No unit is twice in a sequence.
Inj(s) == \A j, k \in 1 .. Len(s) : s[j] = s[k] => j = k

LEMMA AscIsInj == ASSUME NEW s \in Seq(Nat), Asc(s) PROVE Inj(s)
<1> SUFFICES ASSUME NEW j \in 1 .. Len(s), NEW k \in 1 .. Len(s), s[j] = s[k]
             PROVE  j = k
  BY DEF Inj
<1>1. s[j] \in Nat /\ s[k] \in Nat /\ j \in Int /\ k \in Int
  OBVIOUS
<1>2. ~ (j < k) /\ ~ (k < j)
  BY <1>1 DEF Asc
<1>3. QED
  BY <1>1, <1>2

LEMMA InjConcat ==
    ASSUME NEW s \in Seq(Nat), NEW t \in Seq(Nat), Inj(s), Asc(t), Usb!Range(s) \cap Usb!Range(t) = {}
    PROVE  Inj(s \o t)
<1> SUFFICES ASSUME NEW j \in 1 .. Len(s) + Len(t), NEW k \in 1 .. Len(s) + Len(t),
                    (s \o t)[j] = (s \o t)[k]
             PROVE  j = k
  BY RangeConcat DEF Inj
<1>1. Len(s) \in Nat /\ Len(t) \in Nat /\ Inj(t)
  BY AscIsInj
<1>2. \A m \in 1 .. Len(s) + Len(t) :
          \/ m \in 1 .. Len(s) /\ (s \o t)[m] = s[m] /\ s[m] \in Usb!Range(s)
          \/ /\ m - Len(s) \in 1 .. Len(t) /\ (s \o t)[m] = t[m - Len(s)]
             /\ t[m - Len(s)] \in Usb!Range(t)
  <2> TAKE m \in 1 .. Len(s) + Len(t)
  <2>1. CASE m \in 1 .. Len(s)
    BY <2>1, RangeConcat, RangeOfSeq
  <2>2. CASE m \in Len(s) + 1 .. Len(s) + Len(t)
    BY <2>2, RangeConcat, RangeOfSeq
  <2>3. QED
    BY <1>1, <2>1, <2>2
<1>3. CASE j \in 1 .. Len(s) /\ (s \o t)[j] = s[j] /\ s[j] \in Usb!Range(s)
  <2>1. k \in 1 .. Len(s) /\ (s \o t)[k] = s[k]
    BY <1>2, <1>3
  <2>2. QED
    BY <1>3, <2>1 DEF Inj
<1>4. CASE /\ j - Len(s) \in 1 .. Len(t) /\ (s \o t)[j] = t[j - Len(s)]
           /\ t[j - Len(s)] \in Usb!Range(t)
  <2>1. k - Len(s) \in 1 .. Len(t) /\ (s \o t)[k] = t[k - Len(s)]
    BY <1>2, <1>4
  <2>2. j - Len(s) = k - Len(s)
    BY <1>1, <1>4, <2>1 DEF Inj
  <2>3. QED
    BY <1>1, <2>2
<1>5. QED
  BY <1>2, <1>3, <1>4

\* A: with the device, S: on its way to an URB, R: in the ring, Q: in an URB of the
\* pipe, D: in a failed URB, L: lost.  Each unit up to w is in one of them.
Parts(w, A, S, R, Q, D, L) ==
    /\ A \cup S \cup R \cup Q \cup D \cup L = 1 .. w
    /\ A \cap (S \cup R \cup Q \cup D \cup L) = {}
    /\ S \cap (R \cup Q \cup D \cup L) = {}
    /\ R \cap (Q \cup D \cup L) = {}
    /\ Q \cap (D \cup L) = {}
    /\ D \cap L = {}

\* The units of the user: each is at one place, and as long as no transfer failed those
\* that the device has come before those of the URBs, of the data task and of the ring.
OutFlow ==
    /\ received \in Seq(Nat) /\ sending \in Seq(Nat) /\ out_ring \in Seq(Nat)
    /\ outq \in Urbs /\ outDone \in Done /\ written \in Nat /\ fails \in Nat
    /\ Inj(received) /\ Asc(sending) /\ Asc(out_ring) /\ Apart(outq) /\ Apart(DataOf(outDone))
    /\ \A k \in 1 .. Len(outDone) : outDone[k].ok => outDone[k].data = << >>
    /\ Before(Usb!Range(sending), Usb!Range(out_ring))
    /\ Parts(written, Usb!Range(received), Usb!Range(sending), Usb!Range(out_ring), Units(outq),
             Units(DataOf(outDone)), lostOut)
    /\ fails = 0 =>
         /\ Asc(received) /\ InOrder(outq) /\ Units(DataOf(outDone)) = {}
         /\ Before(Usb!Range(received), Units(outq))
         /\ Before(Usb!Range(received) \cup Units(outq), Usb!Range(sending) \cup Usb!Range(out_ring))

LEMMA NoData == << >> \in Done /\ DataOf(<< >>) = << >>
<1>1. << >> \in Done
  BY DEF Done
<1>2. DataOf(<< >>) \in Seq(Seq(Nat)) /\ Len(DataOf(<< >>)) = 0
  BY <1>1, DataType DEF Urbs
<1>3. QED
  BY <1>1, <1>2

LEMMA OutFlowInit == Usb!Init => OutFlow
<1> SUFFICES ASSUME Usb!Init
             PROVE  OutFlow
  OBVIOUS
<1>1. /\ received = << >> /\ sending = << >> /\ out_ring = << >> /\ outq = << >>
      /\ outDone = << >> /\ written = 0 /\ fails = 0 /\ lostOut = {}
  BY DEF Usb!Init
<1>2. 1 .. 0 = {} /\ Inj(<< >>)
  BY DEF Inj
<1>3. Parts(0, {}, {}, {}, {}, {}, {})
  BY <1>2 DEF Parts
<1>4. \A A, B : A = {} \/ B = {} => Before(A, B)
  BY DEF Before
<1>5. QED
  BY <1>1, <1>2, <1>3, <1>4, EmptyAsc, NoData, NoUrbs DEF OutFlow

\* What the transfer of the first URB in the pipe does.
LEMMA OutTransferFlow ==
    ASSUME OutFlow, NEW ok \in BOOLEAN, Usb!OutTransfer(ok)
    PROVE  OutFlow'
<1> DEFINE h == Head(outq)
           r == [ok |-> ok, data |-> IF ok THEN << >> ELSE h]
           A == Usb!Range(received)
           S == Usb!Range(sending)
           R == Usb!Range(out_ring)
           Q == Units(outq)
           D == Units(DataOf(outDone))
           H == Usb!Range(h)
<1>1. /\ outq # << >> /\ outq' = Tail(outq) /\ UNCHANGED << sending, out_ring, lostOut, written >>
      /\ received' = IF ok THEN received \o h ELSE received
      /\ fails' = IF ok THEN fails ELSE fails + 1
      /\ outDone' = Append(outDone, r)
  BY DEF Usb!OutTransfer
<1>2. /\ received \in Seq(Nat) /\ sending \in Seq(Nat) /\ out_ring \in Seq(Nat)
      /\ outq \in Urbs /\ outDone \in Done /\ written \in Nat /\ fails \in Nat
      /\ Inj(received) /\ Asc(sending) /\ Asc(out_ring) /\ Apart(outq) /\ Apart(DataOf(outDone))
      /\ \A k \in 1 .. Len(outDone) : outDone[k].ok => outDone[k].data = << >>
      /\ Before(S, R) /\ Parts(written, A, S, R, Q, D, lostOut)
  BY DEF OutFlow
<1>3. /\ h \in Seq(Nat) /\ Asc(h) /\ outq' \in Urbs /\ Apart(outq')
      /\ H \subseteq Q /\ Units(outq') = Q \ H
      /\ InOrder(outq) => InOrder(outq') /\ Before(H, Units(outq'))
  BY <1>1, <1>2, UrbsTail
<1>4. r \in [ok : BOOLEAN, data : Seq(Nat)] /\ r.data = (IF ok THEN << >> ELSE h) /\ r.ok = ok
  BY <1>3, EmptyAsc
<1> HIDE DEF h, r, A, S, R, Q, D, H
<1>5. /\ outDone' \in Done /\ DataOf(outDone') = Append(DataOf(outDone), r.data)
      /\ Len(outDone') = Len(outDone) + 1
      /\ DataOf(outDone) \in Urbs
  BY <1>1, <1>2, <1>4, DataAppend, DataType
<1>6. \A k \in 1 .. Len(outDone') : outDone'[k].ok => outDone'[k].data = << >>
  <2>1. /\ \A k \in 1 .. Len(outDone) : outDone'[k] = outDone[k]
        /\ outDone'[Len(outDone) + 1] = r /\ Len(outDone) \in Nat
    BY <1>1, <1>2 DEF Done
  <2>2. \A k \in 1 .. Len(outDone') : k \in 1 .. Len(outDone) \/ k = Len(outDone) + 1
    BY <1>5, <2>1
  <2>3. QED
    BY <1>2, <1>4, <2>1, <2>2
<1>7. CASE ok
  <2>1. /\ received' = received \o h /\ fails' = fails /\ r.data = << >>
    BY <1>1, <1>4, <1>7
  <2>2. A \cap H = {}
    BY <1>2, <1>3 DEF Parts
  <2>3. received' \in Seq(Nat) /\ Inj(received') /\ Usb!Range(received') = A \cup H
    BY <1>2, <1>3, <2>1, <2>2, RangeConcat, InjConcat DEF A, H
  <2>4. Apart(DataOf(outDone')) /\ Units(DataOf(outDone')) = D
    <3>1. Usb!Range(<< >>) = {} /\ << >> \in Seq(Nat) /\ Asc(<< >>)
      BY EmptyAsc
    <3>2. /\ DataOf(outDone') = Append(DataOf(outDone), << >>)
          /\ DataOf(outDone) \in Urbs /\ Apart(DataOf(outDone))
      BY <1>2, <1>5, <2>1
    <3>3. Usb!Range(<< >>) \cap Units(DataOf(outDone)) = {}
      BY <3>1
    <3>4. /\ Apart(Append(DataOf(outDone), << >>))
          /\ Units(Append(DataOf(outDone), << >>)) = Units(DataOf(outDone)) \cup Usb!Range(<< >>)
      BY <3>1, <3>2, <3>3, UrbsAppend
    <3>5. QED
      BY <3>1, <3>2, <3>4 DEF D
  <2>5. Parts(written, A \cup H, S, R, Q \ H, D, lostOut)
    BY <1>2, <1>3 DEF Parts
  <2>6. ASSUME fails = 0
        PROVE  /\ Asc(received') /\ InOrder(outq') /\ D = {}
               /\ Before(A \cup H, Q \ H) /\ Before(A \cup H \cup (Q \ H), S \cup R)
    <3>1. /\ Asc(received) /\ InOrder(outq) /\ D = {} /\ Before(A, Q) /\ Before(A \cup Q, S \cup R)
      BY <2>6 DEF OutFlow, A, Q, S, R, D
    <3>2. Before(A, H)
      BY <1>3, <3>1 DEF Before
    <3>3. Asc(received')
      BY <1>2, <1>3, <2>1, <3>1, <3>2, AscConcat DEF A, H
    <3>4. Before(A \cup H, Q \ H)
      BY <1>3, <3>1 DEF Before
    <3>5. Before(A \cup H \cup (Q \ H), S \cup R)
      BY <1>3, <3>1 DEF Before
    <3>6. QED
      BY <1>3, <3>1, <3>3, <3>4, <3>5
  <2>7. QED
    BY <1>1, <1>2, <1>3, <1>5, <1>6, <2>1, <2>3, <2>4, <2>5, <2>6 DEF OutFlow, S, R, D
<1>8. CASE ~ ok
  <2>1. /\ received' = received /\ fails' = fails + 1 /\ r.data = h
    BY <1>1, <1>4, <1>8
  <2>2. D \cap H = {}
    BY <1>2, <1>3 DEF Parts
  <2>3. Apart(DataOf(outDone')) /\ Units(DataOf(outDone')) = D \cup H
    BY <1>2, <1>3, <1>5, <2>1, <2>2, UrbsAppend DEF D, H
  <2>4. Parts(written, A, S, R, Q \ H, D \cup H, lostOut)
    BY <1>2, <1>3 DEF Parts
  <2>5. fails' \in Nat /\ fails' # 0
    BY <1>2, <2>1
  <2>6. QED
    BY <1>1, <1>2, <1>3, <1>5, <1>6, <2>1, <2>3, <2>4, <2>5 DEF OutFlow, A, S, R
<1>9. QED
  BY <1>7, <1>8

LEMMA TakeOutFlow ==
    ASSUME OutFlow, outDone # << >>, Usb!TakeOut
    PROVE  OutFlow'
<1> DEFINE h == Head(outDone).data
           A == Usb!Range(received)
           S == Usb!Range(sending)
           R == Usb!Range(out_ring)
           Q == Units(outq)
           D == Units(DataOf(outDone))
           H == Usb!Range(h)
<1>1. /\ outDone' = Tail(outDone)
      /\ UNCHANGED << received, sending, out_ring, written, fails >>
      /\ \/ Head(outDone).ok /\ UNCHANGED << outq, lostOut >>
         \/ ~ Head(outDone).ok /\ outq' = Append(outq, h) /\ UNCHANGED lostOut
         \/ ~ Head(outDone).ok /\ lostOut' = lostOut \cup H /\ UNCHANGED outq
  BY DEF Usb!TakeOut, Usb!Retried
<1>2. /\ received \in Seq(Nat) /\ sending \in Seq(Nat) /\ out_ring \in Seq(Nat)
      /\ outq \in Urbs /\ outDone \in Done /\ written \in Nat /\ fails \in Nat
      /\ Inj(received) /\ Asc(sending) /\ Asc(out_ring) /\ Apart(outq) /\ Apart(DataOf(outDone))
      /\ \A k \in 1 .. Len(outDone) : outDone[k].ok => outDone[k].data = << >>
      /\ Before(S, R) /\ Parts(written, A, S, R, Q, D, lostOut)
  BY DEF OutFlow
<1>3. /\ outDone' \in Done /\ DataOf(outDone') = Tail(DataOf(outDone)) /\ DataOf(outDone) # << >>
      /\ Head(DataOf(outDone)) = h /\ Len(outDone') = Len(outDone) - 1 /\ DataOf(outDone) \in Urbs
  BY <1>1, <1>2, DataTail, DataType
<1> HIDE DEF h, A, S, R, Q, D, H
<1>4. /\ h \in Seq(Nat) /\ Asc(h) /\ Apart(DataOf(outDone'))
      /\ H \subseteq D /\ Units(DataOf(outDone')) = D \ H
  BY <1>2, <1>3, UrbsTail DEF D, H
<1>5. /\ \A k \in 1 .. Len(outDone') : outDone'[k].ok => outDone'[k].data = << >>
      /\ Head(outDone).ok => H = {}
  <2>1. /\ \A k \in 1 .. Len(outDone) - 1 : outDone'[k] = outDone[k + 1] /\ k + 1 \in 1 .. Len(outDone)
        /\ Head(outDone) = outDone[1] /\ 1 \in 1 .. Len(outDone)
    BY <1>1, <1>2 DEF Done
  <2>2. Head(outDone).ok => h = << >>
    BY <1>2, <2>1 DEF h
  <2>3. QED
    BY <1>2, <1>3, <2>1, <2>2, EmptyAsc DEF H
<1>6. CASE Head(outDone).ok /\ UNCHANGED << outq, lostOut >>
  <2>1. D \ H = D
    BY <1>5, <1>6
  <2>2. QED
    BY <1>1, <1>2, <1>3, <1>4, <1>5, <1>6, <2>1 DEF OutFlow, A, S, R, Q, D
<1>7. CASE ~ Head(outDone).ok /\ outq' = Append(outq, h) /\ UNCHANGED lostOut
  <2>1. H \cap Q = {}
    BY <1>2, <1>4 DEF Parts
  <2>2. /\ outq' \in Urbs /\ Apart(outq') /\ Units(outq') = Q \cup H
        /\ InOrder(outq) /\ Before(Q, H) => InOrder(outq')
    BY <1>2, <1>4, <1>7, <2>1, UrbsAppend DEF H, Q
  <2>3. Parts(written, A, S, R, Q \cup H, D \ H, lostOut)
    BY <1>2, <1>4 DEF Parts
  <2>4. ASSUME fails = 0
        PROVE  /\ Asc(received) /\ InOrder(outq') /\ D \ H = {}
               /\ Before(A, Q \cup H) /\ Before(A \cup (Q \cup H), S \cup R)
    <3>1. /\ Asc(received) /\ InOrder(outq) /\ D = {} /\ Before(A, Q) /\ Before(A \cup Q, S \cup R)
      BY <2>4 DEF OutFlow, A, Q, S, R, D
    <3>2. H = {} /\ Q \cup H = Q
      BY <1>4, <3>1
    <3>3. Before(Q, H)
      BY <3>2 DEF Before
    <3>4. QED
      BY <2>2, <3>1, <3>2, <3>3
  <2>5. QED
    BY <1>1, <1>2, <1>3, <1>4, <1>5, <1>7, <2>2, <2>3, <2>4 DEF OutFlow, A, S, R
<1>8. CASE ~ Head(outDone).ok /\ lostOut' = lostOut \cup H /\ UNCHANGED outq
  <2>1. Parts(written, A, S, R, Q, D \ H, lostOut \cup H)
    BY <1>2, <1>4 DEF Parts
  <2>2. fails = 0 => D \ H = {}
    BY <1>4 DEF OutFlow, D
  <2>3. QED
    BY <1>1, <1>2, <1>3, <1>4, <1>5, <1>8, <2>1, <2>2 DEF OutFlow, A, S, R, Q
<1>9. QED
  BY <1>1, <1>6, <1>7, <1>8

LEMMA PopOutFlow ==
    ASSUME OutFlow, sending = << >>, Usb!PopOut
    PROVE  OutFlow'
<1>1. UNCHANGED << received, outq, outDone, lostOut, written, fails >>
  BY Zenon DEF Usb!PopOut
<1>2. CASE UNCHANGED << sending, out_ring >>
  BY <1>1, <1>2 DEF OutFlow
<1>3. CASE \E k \in 1 .. Len(out_ring) :
               /\ sending' = SubSeq(out_ring, 1, k)
               /\ out_ring' = SubSeq(out_ring, k + 1, Len(out_ring))
  <2>1. PICK k \in 1 .. Len(out_ring) :
               /\ sending' = SubSeq(out_ring, 1, k)
               /\ out_ring' = SubSeq(out_ring, k + 1, Len(out_ring))
    BY <1>3
  <2>2. /\ sending' \in Seq(Nat) /\ Asc(sending') /\ out_ring' \in Seq(Nat) /\ Asc(out_ring')
        /\ Usb!Range(sending') \cup Usb!Range(out_ring') = Usb!Range(out_ring)
        /\ Before(Usb!Range(sending'), Usb!Range(out_ring'))
    BY <2>1, AscSplit DEF OutFlow
  <2>3. Usb!Range(sending) = {}
    BY EmptyAsc
  <2>4. Usb!Range(sending') \cap Usb!Range(out_ring') = {}
    <3>1. \A x \in Usb!Range(sending') : x \in Nat /\ x \notin Usb!Range(out_ring')
      BY <2>2, RangeOfSeq DEF Before
    <3>2. QED
      BY <3>1
  <2>5. Parts(written, Usb!Range(received), Usb!Range(sending'), Usb!Range(out_ring'), Units(outq),
              Units(DataOf(outDone)), lostOut)
    <3>1. Parts(written, Usb!Range(received), {}, Usb!Range(out_ring), Units(outq),
                Units(DataOf(outDone)), lostOut)
      BY <2>3 DEF OutFlow
    <3>2. \A w, A, S, R, T, Q, D, L :
              Parts(w, A, {}, S, Q, D, L) /\ T \cup R = S /\ T \cap R = {} => Parts(w, A, T, R, Q, D, L)
      BY DEF Parts
    <3>3. QED
      BY <2>2, <2>4, <3>1, <3>2, Zenon
  <2>6. Usb!Range(sending) \cup Usb!Range(out_ring) = Usb!Range(sending') \cup Usb!Range(out_ring')
    BY <2>2, <2>3
  <2>7. QED
    BY <1>1, <2>2, <2>5, <2>6 DEF OutFlow
<1>4. QED
  BY <1>2, <1>3, Zenon DEF Usb!PopOut

LEMMA CountOutFlow ==
    ASSUME OutFlow, Usb!CountOut
    PROVE  OutFlow'
<1> DEFINE A == Usb!Range(received)
           S == Usb!Range(sending)
           R == Usb!Range(out_ring)
           Q == Units(outq)
           D == Units(DataOf(outDone))
<1>1. /\ sending' = << >> /\ UNCHANGED << received, out_ring, outDone, written, fails >>
      /\ \/ outq' = Append(outq, sending) /\ UNCHANGED lostOut
         \/ lostOut' = lostOut \cup S /\ UNCHANGED outq
  BY DEF Usb!CountOut
<1>2. /\ received \in Seq(Nat) /\ sending \in Seq(Nat) /\ out_ring \in Seq(Nat)
      /\ outq \in Urbs /\ outDone \in Done /\ written \in Nat /\ fails \in Nat
      /\ Inj(received) /\ Asc(sending) /\ Asc(out_ring) /\ Apart(outq) /\ Apart(DataOf(outDone))
      /\ \A k \in 1 .. Len(outDone) : outDone[k].ok => outDone[k].data = << >>
      /\ Before(S, R) /\ Parts(written, A, S, R, Q, D, lostOut)
  BY DEF OutFlow
<1> HIDE DEF A, S, R, Q, D
<1>3. sending' \in Seq(Nat) /\ Asc(sending') /\ Usb!Range(sending') = {} /\ Before({}, R)
  BY <1>1, EmptyAsc DEF Before
<1>4. fails = 0 => /\ Asc(received) /\ InOrder(outq) /\ D = {} /\ Before(A, Q)
                   /\ Before(A \cup Q, S \cup R)
  BY DEF OutFlow, A, Q, S, R, D
<1>5. CASE outq' = Append(outq, sending) /\ UNCHANGED lostOut
  <2>1. S \cap Q = {}
    BY <1>2 DEF Parts
  <2>2. /\ outq' \in Urbs /\ Apart(outq') /\ Units(outq') = Q \cup S
        /\ InOrder(outq) /\ Before(Q, S) => InOrder(outq')
    BY <1>2, <1>5, <2>1, UrbsAppend DEF S, Q
  <2>3. Parts(written, A, {}, R, Q \cup S, D, lostOut)
    BY <1>2 DEF Parts
  <2>4. ASSUME fails = 0
        PROVE  Before(Q, S) /\ Before(A, Q \cup S) /\ Before(A \cup (Q \cup S), {} \cup R)
    BY <1>2, <1>4, <2>4 DEF Before
  <2>5. QED
    BY <1>1, <1>2, <1>3, <1>4, <1>5, <2>2, <2>3, <2>4 DEF OutFlow, A, R, D
<1>6. CASE lostOut' = lostOut \cup S /\ UNCHANGED outq
  <2>1. Parts(written, A, {}, R, Q, D, lostOut \cup S)
    BY <1>2 DEF Parts
  <2>2. fails = 0 => Before(A \cup Q, {} \cup R)
    BY <1>4 DEF Before
  <2>3. QED
    BY <1>1, <1>2, <1>3, <1>4, <1>6, <2>1, <2>2 DEF OutFlow, A, R, Q, D
<1>7. QED
  BY <1>1, <1>5, <1>6

LEMMA CloseFlow ==
    ASSUME OutFlow, Usb!Close
    PROVE  OutFlow'
<1>1. /\ outq' = << >> /\ outDone' = << >>
      /\ UNCHANGED << received, sending, out_ring, written, fails >>
      /\ lostOut' = lostOut \cup Units(outq) \cup (UNION { Usb!Range(outDone[k].data) : k \in 1 .. Len(outDone) })
  BY Zenon DEF Usb!Close, Units
<1>2. UNION { Usb!Range(outDone[k].data) : k \in 1 .. Len(outDone) } = Units(DataOf(outDone))
  <2>1. outDone \in Done
    BY DEF OutFlow
  <2>2. QED
    BY <2>1, DataType, Zenon DEF Units
<1>3. /\ outq' \in Urbs /\ Apart(outq') /\ InOrder(outq') /\ Units(outq') = {}
      /\ outDone' \in Done /\ DataOf(outDone') = << >> /\ Len(outDone') = 0
  BY <1>1, NoUrbs, NoData
<1>4. Apart(DataOf(outDone')) /\ Units(DataOf(outDone')) = {}
  BY <1>3, NoUrbs
<1>5. \A w, A, S, R, Q, D, L :
          Parts(w, A, S, R, Q, D, L) => Parts(w, A, S, R, {}, {}, L \cup Q \cup D)
  BY DEF Parts
<1>6. Parts(written, Usb!Range(received), Usb!Range(sending), Usb!Range(out_ring), {}, {}, lostOut')
  BY <1>1, <1>2, <1>5, Zenon DEF OutFlow
<1>7. fails = 0 => /\ Before(Usb!Range(received), {})
                   /\ Before(Usb!Range(received) \cup {}, Usb!Range(sending) \cup Usb!Range(out_ring))
  BY DEF OutFlow, Before
<1>8. \A k \in 1 .. Len(outDone') : outDone'[k].ok => outDone'[k].data = << >>
  BY <1>3
<1>9. fails' = 0 => /\ Asc(received') /\ InOrder(outq') /\ Units(DataOf(outDone')) = {}
                    /\ Before(Usb!Range(received'), Units(outq'))
                    /\ Before(Usb!Range(received') \cup Units(outq'), Usb!Range(sending') \cup Usb!Range(out_ring'))
  BY <1>1, <1>3, <1>4, <1>7 DEF OutFlow
<1>10. Parts(written', Usb!Range(received'), Usb!Range(sending'), Usb!Range(out_ring'), Units(outq'),
             Units(DataOf(outDone')), lostOut')
  BY <1>1, <1>3, <1>4, <1>6
<1>11. QED
  BY <1>1, <1>3, <1>4, <1>8, <1>9, <1>10, Zenon DEF OutFlow

LEMMA WritePushFlow ==
    ASSUME OutFlow, Usb!WritePush
    PROVE  OutFlow'
<1>1. /\ out_ring' = Append(out_ring, written + 1) /\ written' = written + 1
      /\ UNCHANGED << received, sending, outq, outDone, lostOut, fails >>
  BY Zenon DEF Usb!WritePush, Usb!drv, Usb!outp
<1>2. written \in Nat /\ written + 1 \in Nat /\ 1 .. written + 1 = (1 .. written) \cup {written + 1}
  BY DEF OutFlow
<1>3. /\ Usb!Range(received) \subseteq 1 .. written /\ Usb!Range(sending) \subseteq 1 .. written
      /\ Usb!Range(out_ring) \subseteq 1 .. written /\ Units(outq) \subseteq 1 .. written
  BY DEF OutFlow, Parts
<1>4. \A n \in 1 .. written : n < written + 1 /\ n # written + 1
  BY <1>2
<1>5. Before(Usb!Range(out_ring), {written + 1})
  BY <1>3, <1>4 DEF Before
<1>6. /\ out_ring' \in Seq(Nat) /\ Asc(out_ring')
      /\ Usb!Range(out_ring') = Usb!Range(out_ring) \cup {written + 1}
  BY <1>1, <1>2, <1>5, AscAppend DEF OutFlow
<1>7. \A A, S, R, Q, D, L :
          Parts(written, A, S, R, Q, D, L)
              => Parts(written + 1, A, S, R \cup {written + 1}, Q, D, L)
  <2>1. written + 1 \notin 1 .. written
    BY <1>4
  <2>2. QED
    BY <1>2, <2>1 DEF Parts
<1>8. Parts(written', Usb!Range(received), Usb!Range(sending), Usb!Range(out_ring'), Units(outq),
            Units(DataOf(outDone)), lostOut)
  BY <1>1, <1>6, <1>7 DEF OutFlow
<1>9. Before(Usb!Range(sending), Usb!Range(out_ring'))
  BY <1>3, <1>4, <1>6 DEF OutFlow, Before
<1>10. fails = 0 => Before(Usb!Range(received) \cup Units(outq), Usb!Range(sending) \cup Usb!Range(out_ring'))
  BY <1>3, <1>4, <1>6 DEF OutFlow, Before
<1>11. QED
  BY <1>1, <1>2, <1>6, <1>8, <1>9, <1>10 DEF OutFlow

LEMMA DataReadyFlow ==
    ASSUME Usb!CdcAssumption, OutFlow, outq = << >>, Usb!DataReady
    PROVE  OutFlow'
<1>1. /\ UNCHANGED << received, sending, out_ring, outDone, lostOut, written, fails >>
      /\ outq' = outq \/ outq' = [k \in 1 .. OutUrbs |-> << >>]
  BY DEF Usb!DataReady, Usb!outb
<1>2. outq' \in Urbs /\ Apart(outq') /\ InOrder(outq') /\ Units(outq') = {} /\ Units(outq) = {}
  <2>1. OutUrbs \in Nat
    BY DEF Usb!CdcAssumption
  <2>2. QED
    BY <1>1, <2>1, NoUrbs, EmptyUrbs
<1>3. QED
  BY <1>1, <1>2 DEF OutFlow

LEMMA OutFlowStep ==
    Usb!CdcAssumption /\ Lengths /\ Events /\ OutFlow /\ [Usb!Next]_Usb!vars => OutFlow'
<1> SUFFICES ASSUME Usb!CdcAssumption, Lengths, Events, OutFlow, [Usb!Next]_Usb!vars
             PROVE  OutFlow'
  OBVIOUS
<1>0. ASSUME UNCHANGED outFlow
      PROVE  OutFlow'
  BY <1>0 DEF OutFlow, outFlow
<1>1. CASE Idle
  BY <1>0, <1>1, Zenon DEF Idle, data, Usb!outp, Usb!outb, outFlow
<1>2. CASE Usb!InTransfer
  BY <1>0, <1>2, Zenon DEF Usb!InTransfer, Usb!outp, Usb!outb, outFlow
<1>3. CASE \E ok \in BOOLEAN : Usb!OutTransfer(ok)
  BY <1>3, OutTransferFlow
<1>4. CASE Usb!DataTask
  <2>1. CASE Usb!DataReady
    <3>1. outq = << >>
      BY <2>1 DEF Usb!DataReady, Events
    <3>2. QED
      BY <2>1, <3>1, DataReadyFlow
  <2>2. CASE Usb!TakeOut
    <3>1. dq # << >> /\ Head(dq) = "out"
      BY <2>2 DEF Usb!TakeOut
    <3>2. Count(dq, "out") >= 1
      BY <3>1, CountTail DEF Events
    <3>3. outDone # << >>
      BY <3>2, NoData, EmptyAsc DEF Events
    <3>4. QED
      BY <2>2, <3>3, TakeOutFlow
  <2>3. CASE Usb!PopOut
    <3>1. sending = << >>
      BY <2>3 DEF Usb!PopOut, Lengths
    <3>2. QED
      BY <2>3, <3>1, PopOutFlow
  <2>4. CASE Usb!CountOut
    BY <2>4, CountOutFlow
  <2>5. CASE Usb!Close
    BY <2>5, CloseFlow
  <2>6. CASE Usb!DataStart \/ Usb!TakeIn \/ Usb!PushIn \/ Usb!CountIn \/ Usb!SkipIn \/ Usb!PollOut \/ Usb!PopNothing \/ Usb!DataKilled
    BY <1>0, <2>6, Zenon DEF Usb!DataStart, Usb!TakeIn, Usb!PushIn, Usb!CountIn, Usb!SkipIn,
                             Usb!PollOut, Usb!PopNothing,
                             Usb!DataKilled, Usb!outp, Usb!outb, outFlow
  <2>7. QED
    BY <1>4, <2>1, <2>2, <2>3, <2>4, <2>5, <2>6, Zenon DEF Usb!DataTask
<1>5. CASE Usb!Reader
  BY <1>0, <1>5, Zenon DEF Usb!Reader, Usb!ReadEnter, Usb!ReadPop, Usb!ReadCount,
                           Usb!ReadNothing, Usb!drv, Usb!outp, Usb!outb, outFlow
<1>6. CASE Usb!Writer
  <2>1. CASE Usb!WritePush
    BY <2>1, WritePushFlow
  <2>2. CASE Usb!WriteEnter \/ Usb!WriteCount \/ Usb!WriteFails
    BY <1>0, <2>2, Zenon DEF Usb!WriteEnter, Usb!WriteCount, Usb!WriteFails, Usb!drv, Usb!outp,
                             outFlow
  <2>3. QED
    BY <1>6, <2>1, <2>2, Zenon DEF Usb!Writer, Usb!WriterGoesOn
<1>7. QED
  BY <1>1, <1>2, <1>3, <1>4, <1>5, <1>6, DataMoves, Zenon

\* The list of URBs: it is not empty when data is about to be sent, and its first
\* entry belongs to this connection once data has been taken for it.
UrbList ==
    /\ pending \in [1 .. OutUrbs -> Usb!UrbStates]
    /\ dpc \in {"none", "start", "pipes"} => \A k \in 1 .. OutUrbs : pending[k] # "live"
    /\ dpc \in {"send", "outcount"} => Usb!Pending # {}
    /\ dpc = "outcount" => pending[Usb!FirstOf(Usb!Pending)] # "stale"
    /\ Usb!UrbsConserved

\* No entry of the list is left from an earlier connection.
NoneStale == \A k \in 1 .. OutUrbs : pending[k] # "stale"

LEMMA UsbCardinality == ASSUME NEW S PROVE Usb!Cardinality(S) = Cardinality(S)
BY Zenon DEF Usb!Cardinality, Cardinality

\* What UrbsConserved says, now and after a step.
LEMMA Conserved ==
    /\ Usb!UrbsConserved <=>
          (port = "enabled" /\ ready /\ NoneStale
              => Len(outq) + Len(outDone) + Cardinality(Usb!Pending) = OutUrbs)
    /\ Usb!UrbsConserved' <=>
          (port' = "enabled" /\ ready' /\ NoneStale'
              => Len(outq') + Len(outDone') + Cardinality(Usb!Pending') = OutUrbs)
BY Zenon DEF Usb!UrbsConserved, NoneStale, Usb!Cardinality, Cardinality

LEMMA EmptySeqLen ==
    \A S : \A s \in Seq(S) : /\ Len(s) \in Nat /\ (s # << >> => Len(s) >= 1)
                           /\ \A e \in S : Len(Append(s, e)) = Len(s) + 1
OBVIOUS

LEMMA PendingFinite ==
    ASSUME Usb!CdcAssumption
    PROVE  /\ OutUrbs \in Nat /\ OutUrbs >= 1
           /\ IsFiniteSet(Usb!Pending) /\ Cardinality(Usb!Pending) \in Nat
           /\ Usb!Pending \subseteq 1 .. OutUrbs /\ Usb!Pending \in SUBSET Nat
<1>1. OutUrbs \in Nat /\ OutUrbs >= 1
  BY DEF Usb!CdcAssumption
<1>2. Usb!Pending \in SUBSET (1 .. OutUrbs)
  BY DEF Usb!Pending
<1>3. IsFiniteSet(1 .. OutUrbs)
  BY <1>1, FS_Interval
<1>4. IsFiniteSet(Usb!Pending)
  BY <1>2, <1>3, FS_Subset
<1>5. Cardinality(Usb!Pending) \in Nat
  BY <1>4, FS_CardinalityType
<1>6. QED
  BY <1>1, <1>2, <1>4, <1>5

LEMMA UrbListInit == Usb!Init => UrbList
BY DEF Usb!Init, UrbList, Usb!UrbStates, Usb!UrbsConserved

LEMMA TakeOutList ==
    ASSUME Usb!CdcAssumption, Events, UrbList, outDone # << >>, Usb!TakeOut
    PROVE  UrbList'
<1>1. /\ dpc = "run" /\ outDone' = Tail(outDone)
      /\ UNCHANGED << port, ready >>
  BY DEF Usb!TakeOut, Usb!Runs, Usb!bits
<1>2. /\ pending \in [1 .. OutUrbs -> Usb!UrbStates]
      /\ port = "enabled" /\ ready /\ NoneStale
           => Len(outq) + Len(outDone) + Cardinality(Usb!Pending) = OutUrbs
  BY Conserved DEF UrbList
<1>3. /\ outq \in Urbs /\ Len(outq) \in Nat /\ Len(outDone) \in Nat /\ Len(outDone) >= 1
      /\ Len(outDone') = Len(outDone) - 1 /\ Head(outDone).data \in Seq(Nat)
  <2>1. outDone \in Done /\ outq \in Urbs
    BY DEF Events
  <2>2. Len(outDone') = Len(outDone) - 1 /\ Head(outDone).data \in Seq(Nat)
    BY <1>1, <2>1, DoneTaken
  <2>3. Len(outq) \in Nat
    BY <2>1 DEF Urbs
  <2>4. Len(outDone) \in Nat /\ Len(outDone) >= 1
    BY <2>1, EmptySeqLen DEF Done
  <2>5. QED
    BY <2>1, <2>2, <2>3, <2>4
<1>4. CASE Head(outDone).ok
  <2>1. pending' = Usb!WithDone /\ outq' = outq /\ dpc' \in {"run", "send"}
    BY <1>4 DEF Usb!TakeOut, Usb!SendNext
  <2> DEFINE free == 1 .. OutUrbs \ Usb!Pending
  <2>2. CASE free = {}
    <3>1. pending' = pending
      BY <2>1, <2>2 DEF Usb!WithDone
    <3>2. Usb!Pending = 1 .. OutUrbs /\ Usb!Pending # {}
      <4>1. Usb!Pending \subseteq 1 .. OutUrbs /\ 1 \in 1 .. OutUrbs
        BY PendingFinite
      <4>2. QED
        BY <2>2, <4>1, Zenon
    <3>3. Cardinality(Usb!Pending) = OutUrbs
      BY <3>2, PendingFinite, FS_Interval
    <3>4. ~ (port = "enabled" /\ ready /\ NoneStale)
      BY <1>2, <1>3, <3>3, PendingFinite
    <3>5. Usb!Pending' = Usb!Pending /\ NoneStale' = NoneStale
      BY <3>1 DEF Usb!Pending, NoneStale
    <3>6. Usb!UrbsConserved'
      BY <1>1, <3>4, <3>5 DEF Usb!UrbsConserved, NoneStale
    <3>7. QED
      BY <1>2, <2>1, <3>1, <3>2, <3>5, <3>6 DEF UrbList
  <2>3. CASE free # {}
    <3> DEFINE f == Usb!FirstOf(free)
    <3>1. f \in free
      BY <2>3, FirstOfIs, PendingFinite
    <3> HIDE DEF f
    <3>2. f \in 1 .. OutUrbs /\ f \notin Usb!Pending
      BY <3>1
    <3>3. pending' = [pending EXCEPT ![f] = "live"]
      BY <2>1, <2>3 DEF Usb!WithDone, f
    <3>4. pending[f] = "none"
      BY <3>2 DEF Usb!Pending
    <3>5. Usb!Pending' = Usb!Pending \cup {f}
      BY <1>2, <3>2, <3>3 DEF Usb!Pending
    <3>6. Cardinality(Usb!Pending') = Cardinality(Usb!Pending) + 1
      BY <3>2, <3>5, PendingFinite, FS_AddElement
    <3>7. NoneStale' => NoneStale
      BY <1>2, <3>2, <3>3, <3>4 DEF NoneStale
    <3>8. pending' \in [1 .. OutUrbs -> Usb!UrbStates] /\ Usb!Pending' # {}
      BY <1>2, <3>3, <3>5 DEF Usb!UrbStates
    <3>9. Usb!UrbsConserved'
      <4>1. ASSUME port = "enabled", ready, NoneStale'
            PROVE  Len(outq') + Len(outDone') + Cardinality(Usb!Pending') = OutUrbs
        BY <1>2, <1>3, <2>1, <3>6, <3>7, <4>1, PendingFinite
      <4>2. QED
        BY <1>1, <4>1, Conserved
    <3>10. QED
      BY <2>1, <3>8, <3>9 DEF UrbList
  <2>4. QED
    BY <2>2, <2>3
<1>5. CASE ~ Head(outDone).ok
  <2>1. /\ pending' = pending /\ dpc' = dpc
        /\ port = "enabled" => outq' = Append(outq, Head(outDone).data)
    BY <1>5 DEF Usb!TakeOut, Usb!Retried
  <2>2. Usb!Pending' = Usb!Pending /\ NoneStale' = NoneStale
    BY <2>1 DEF Usb!Pending, NoneStale
  <2>3. port = "enabled" => Len(outq') = Len(outq) + 1
    BY <1>3, <2>1 DEF Urbs
  <2>4. Usb!UrbsConserved'
    <3>1. ASSUME port = "enabled", ready, NoneStale
          PROVE  Len(outq') + Len(outDone') + Cardinality(Usb!Pending) = OutUrbs
      <4>1. Cardinality(Usb!Pending) \in Nat
        BY PendingFinite
      <4>2. Len(outq) + Len(outDone) + Cardinality(Usb!Pending) = OutUrbs
        BY <1>2, <3>1
      <4>3. QED
        BY <1>3, <2>3, <3>1, <4>1, <4>2
    <3>2. QED
      BY <1>1, <2>2, <3>1, Conserved
  <2>5. QED
    BY <1>1, <1>2, <2>1, <2>2, <2>4 DEF UrbList
<1>6. QED
  BY <1>4, <1>5

LEMMA CountOutList ==
    ASSUME Usb!CdcAssumption, Events, Lengths, UrbList, Usb!CountOut
    PROVE  UrbList'
<1> DEFINE f == Usb!FirstOf(Usb!Pending)
<1>1. /\ dpc = "outcount" /\ dpc' = "run" /\ outDone' = outDone
      /\ pending' = [pending EXCEPT ![f] = "none"]
      /\ UNCHANGED << port, ready >>
      /\ port = "enabled" => outq' = Append(outq, sending)
  BY DEF Usb!CountOut, Usb!bits
<1>2. /\ pending \in [1 .. OutUrbs -> Usb!UrbStates] /\ Usb!Pending # {} /\ pending[f] # "stale"
      /\ port = "enabled" /\ ready /\ NoneStale
           => Len(outq) + Len(outDone) + Cardinality(Usb!Pending) = OutUrbs
  BY <1>1, Conserved DEF UrbList
<1>3. f \in Usb!Pending
  BY <1>2, FirstOfIs, PendingFinite
<1>4. f \in 1 .. OutUrbs /\ pending[f] # "none"
  BY <1>3 DEF Usb!Pending
<1> HIDE DEF f
<1>5. Usb!Pending' = Usb!Pending \ {f}
  BY <1>1, <1>2, <1>4 DEF Usb!Pending
<1>6. Cardinality(Usb!Pending') = Cardinality(Usb!Pending) - 1
  BY <1>3, <1>5, PendingFinite, FS_RemoveElement
<1>7. NoneStale' => NoneStale
  BY <1>1, <1>2, <1>4 DEF NoneStale
<1>8. pending' \in [1 .. OutUrbs -> Usb!UrbStates]
  BY <1>1, <1>2 DEF Usb!UrbStates
<1>9. Len(outq) \in Nat /\ Len(outDone) \in Nat /\ (port = "enabled" => Len(outq') = Len(outq) + 1)
  <2>1. outq \in Seq(Seq(Nat)) /\ outDone \in Done /\ sending \in Seq(Nat)
    BY DEF Events, Lengths, Urbs
  <2>2. Len(outq) \in Nat /\ Len(Append(outq, sending)) = Len(outq) + 1
    BY <2>1
  <2>3. Len(outDone) \in Nat
    BY <2>1, EmptySeqLen, Zenon DEF Done
  <2>4. QED
    BY <1>1, <2>2, <2>3
<1>10. Usb!UrbsConserved'
  <2>1. ASSUME port = "enabled", ready, NoneStale'
        PROVE  Len(outq') + Len(outDone') + Cardinality(Usb!Pending') = OutUrbs
    BY <1>1, <1>2, <1>6, <1>7, <1>9, <2>1, PendingFinite
  <2>2. QED
    BY <1>1, <2>1, Conserved
<1>11. QED
  BY <1>1, <1>8, <1>10 DEF UrbList

LEMMA UrbListStep ==
    Usb!CdcAssumption /\ CdcCtl /\ Lengths /\ Events /\ UrbList /\ [Usb!Next]_Usb!vars => UrbList'
<1> SUFFICES ASSUME Usb!CdcAssumption, CdcCtl, Lengths, Events, UrbList, [Usb!Next]_Usb!vars
             PROVE  UrbList'
  OBVIOUS
<1>0. ASSUME UNCHANGED << pending, outq, outDone >>,
             dpc' \notin {"send", "outcount"} \/ dpc' = dpc,
             dpc' \in {"none", "start", "pipes"} => dpc \in {"none", "start", "pipes"},
             port' = "enabled" /\ ready' => port = "enabled" /\ ready
      PROVE  UrbList'
  <2>1. Usb!Pending' = Usb!Pending
    BY <1>0 DEF Usb!Pending
  <2>2. Usb!UrbsConserved'
    BY <1>0, <2>1 DEF UrbList, Usb!UrbsConserved
  <2>3. QED
    BY <1>0, <2>1, <2>2 DEF UrbList
<1>1. CASE Idle
  <2>1. /\ UNCHANGED << pending, outq, outDone, ready >>
        /\ dpc' = dpc \/ (ppc = "create" /\ dpc' = "start")
        /\ port' = "enabled" => port = "enabled" \/ ppc = "portreset"
    BY <1>1, Zenon DEF Idle, data, Usb!outp
  <2>2. ppc = "create" => dpc = "none"
    BY DEF CdcCtl
  <2>3. ppc = "portreset" => ~ ready
    BY DEF CdcCtl, Moving
  <2>4. QED
    BY <1>0, <2>1, <2>2, <2>3
<1>2. CASE Usb!InTransfer
  BY <1>0, <1>2, Zenon DEF Usb!InTransfer, Usb!outp, Usb!bits
<1>3. ASSUME NEW ok \in BOOLEAN, Usb!OutTransfer(ok)
      PROVE  UrbList'
  <2> DEFINE r == [ok |-> ok, data |-> IF ok THEN << >> ELSE Head(outq)]
  <2>1. /\ outq # << >> /\ outq' = Tail(outq) /\ outDone' = Append(outDone, r)
        /\ UNCHANGED << pending, dpc, port, ready >>
    BY <1>3, Zenon DEF Usb!OutTransfer, Usb!bits
  <2> HIDE DEF r
  <2>2. Len(outq') = Len(outq) - 1 /\ Len(outq) \in Nat
    <3>1. outq \in Seq(Seq(Nat))
      BY DEF Events, Urbs
    <3>2. QED
      BY <2>1, <3>1
  <2>3. Len(outDone') = Len(outDone) + 1 /\ Len(outDone) \in Nat
    <3>1. outDone \in Seq([ok : BOOLEAN, data : Seq(Nat)])
      BY DEF Events, Done
    <3>2. Len(outDone) \in Nat /\ \A e : Len(Append(outDone, e)) = Len(outDone) + 1
      BY <3>1
    <3>3. QED
      BY <2>1, <3>2, Zenon
  <2>4. Usb!Pending' = Usb!Pending
    BY <2>1 DEF Usb!Pending
  <2>5. Usb!UrbsConserved'
    <3>1. Cardinality(Usb!Pending) \in Nat
      BY PendingFinite
    <3>2. QED
      BY <2>1, <2>2, <2>3, <2>4, <3>1 DEF UrbList, Usb!UrbsConserved
  <2>6. QED
    BY <2>1, <2>4, <2>5 DEF UrbList
<1>4. CASE Usb!DataTask
  <2>1. CASE Usb!DataReady
    <3>1. /\ dpc = "pipes" /\ dpc' = "run" /\ UNCHANGED << pending, outDone, port >>
          /\ port = "enabled" => outq' = [k \in 1 .. OutUrbs |-> << >>]
      BY <2>1 DEF Usb!DataReady
    <3>2. outDone = << >> /\ \A k \in 1 .. OutUrbs : pending[k] # "live"
      BY <3>1 DEF Events, UrbList
    <3>3. ASSUME NoneStale, port = "enabled"
          PROVE  Len(outq') + Len(outDone') + Cardinality(Usb!Pending') = OutUrbs
      <4>1. \A k \in 1 .. OutUrbs : pending[k] = "none"
        BY <3>2, <3>3 DEF UrbList, Usb!UrbStates, NoneStale
      <4>2. Usb!Pending' = {}
        BY <3>1, <4>1 DEF Usb!Pending
      <4>3. Len(outq') = OutUrbs
        BY <3>1, <3>3, PendingFinite, EmptyUrbs
      <4>4. QED
        BY <3>1, <3>2, <4>2, <4>3, FS_EmptySet, EmptyAsc, PendingFinite
    <3>4. Usb!UrbsConserved'
      BY <3>1, <3>3, Conserved DEF NoneStale
    <3>5. QED
      BY <3>1, <3>4 DEF UrbList
  <2>2. CASE Usb!TakeOut
    <3>1. dq # << >> /\ Head(dq) = "out"
      BY <2>2 DEF Usb!TakeOut
    <3>2. Count(dq, "out") >= 1
      BY <3>1, CountTail DEF Events
    <3>3. outDone # << >>
      BY <3>2, NoData, EmptyAsc DEF Events
    <3>4. QED
      BY <2>2, <3>3, TakeOutList
  <2>3. CASE Usb!PollOut
    <3>1. /\ Usb!Pending # {} /\ dpc = "run" /\ dpc' = "send"
          /\ UNCHANGED << pending, outq, outDone, port, ready >>
      BY <2>3, Zenon DEF Usb!PollOut, Usb!Poll, Usb!Runs, Usb!outp, Usb!bits
    <3>2. Usb!Pending' = Usb!Pending
      BY <3>1 DEF Usb!Pending
    <3>3. QED
      BY <3>1, <3>2 DEF UrbList, Usb!UrbsConserved
  <2>4. CASE Usb!PopOut
    <3>1. /\ dpc = "send" /\ UNCHANGED << pending, outq, outDone, port, ready >>
          /\ \/ dpc' = dpc
             \/ dpc' = "outcount" /\ pending[Usb!FirstOf(Usb!Pending)] # "stale"
      BY <2>4, Zenon DEF Usb!PopOut, Usb!bits
    <3>2. Usb!Pending' = Usb!Pending
      BY <3>1 DEF Usb!Pending
    <3>3. QED
      BY <3>1, <3>2 DEF UrbList, Usb!UrbsConserved
  <2>5. CASE Usb!CountOut
    BY <2>5, CountOutList
  <2>6. CASE Usb!Close
    <3>1. /\ dpc = "close" /\ dpc' = "none" /\ UNCHANGED << port, ready >>
          /\ pending' = [k \in 1 .. OutUrbs |-> IF pending[k] = "none" THEN "none" ELSE "stale"]
      BY <2>6, Zenon DEF Usb!Close
    <3>2. ~ ready
      BY <3>1 DEF CdcCtl, Moving
    <3>3. pending' \in [1 .. OutUrbs -> Usb!UrbStates] /\ \A k \in 1 .. OutUrbs : pending'[k] # "live"
      BY <3>1 DEF Usb!UrbStates
    <3>4. QED
      BY <3>1, <3>2, <3>3 DEF UrbList, Usb!UrbsConserved
  <2>7. CASE Usb!DataStart \/ Usb!TakeIn \/ Usb!PushIn \/ Usb!CountIn \/ Usb!SkipIn \/ Usb!PopNothing
    <3>1. UNCHANGED << pending, outq, outDone, port, ready >>
      BY <2>7, Zenon DEF Usb!DataStart, Usb!TakeIn, Usb!PushIn, Usb!CountIn, Usb!SkipIn,
                         Usb!PopNothing, Usb!outp, Usb!bits
    <3>2. \/ dpc' = dpc
          \/ dpc = "start" /\ dpc' = "pipes"
          \/ dpc' \in {"push", "incount", "run"}
      BY <2>7 DEF Usb!DataStart, Usb!TakeIn, Usb!PushIn, Usb!CountIn, Usb!SkipIn, Usb!PopNothing
    <3>3. QED
      BY <1>0, <3>1, <3>2
  <2>8. CASE Usb!DataKilled
    BY <1>0, <2>8 DEF Usb!DataKilled, Usb!outp
  <2>9. QED
    BY <1>4, <2>1, <2>2, <2>3, <2>4, <2>5, <2>6, <2>7, <2>8, Zenon DEF Usb!DataTask
<1>5. CASE Usb!Reader
  BY <1>0, <1>5, Zenon DEF Usb!Reader, Usb!ReadEnter, Usb!ReadPop, Usb!ReadCount,
                           Usb!ReadNothing, Usb!drv, Usb!outp, Usb!bits
<1>6. CASE Usb!Writer
  BY <1>0, <1>6, Zenon DEF Usb!Writer, Usb!WriterGoesOn, Usb!WriteEnter, Usb!WritePush,
                           Usb!WriteCount, Usb!WriteFails,
                           Usb!drv, Usb!outp, Usb!bits
<1>7. QED
  BY <1>1, <1>2, <1>3, <1>4, <1>5, <1>6, DataMoves, Zenon

\* The size of a set of places of which there is at most one.
LEMMA OnePlace ==
    ASSUME NEW S, \A x, y \in S : x = y
    PROVE  Cardinality(S) = IF S = {} THEN 0 ELSE 1
<1>1. CASE S = {}
  BY <1>1, FS_EmptySet
<1>2. CASE S # {}
  <2>1. PICK x : x \in S
    BY <1>2
  <2>2. S = {x}
    BY <2>1
  <2>3. QED
    BY <1>2, <2>2, FS_Singleton
<1>3. QED
  BY <1>1, <1>2

LEMMA PlacesInSeq ==
    ASSUME NEW s \in Seq(Nat), Inj(s), NEW u
    PROVE  Cardinality({ k \in 1 .. Len(s) : s[k] = u }) = IF u \in Usb!Range(s) THEN 1 ELSE 0
<1> DEFINE S == { k \in 1 .. Len(s) : s[k] = u }
<1>1. \A x, y \in S : x = y
  BY DEF Inj
<1>2. S = {} <=> u \notin Usb!Range(s)
  BY RangeOfSeq
<1>3. Cardinality(S) = IF S = {} THEN 0 ELSE 1
  BY <1>1, OnePlace
<1>4. QED
  BY <1>2, <1>3

LEMMA PlacesInUrbs ==
    ASSUME NEW q \in Urbs, Apart(q), NEW u
    PROVE  Cardinality({ k \in 1 .. Len(q) : u \in Usb!Range(q[k]) }) = IF u \in Units(q) THEN 1 ELSE 0
<1> DEFINE S == { k \in 1 .. Len(q) : u \in Usb!Range(q[k]) }
<1>1. ASSUME NEW x \in S, NEW y \in S
      PROVE  x = y
  BY DEF Apart
<1>2. S = {} <=> u \notin Units(q)
  BY UnitsOf
<1>3. Cardinality(S) = IF S = {} THEN 0 ELSE 1
  BY <1>1, OnePlace
<1>4. QED
  BY <1>2, <1>3

LEMMA OutFlowAccounts == OutFlow => Usb!OutAccounts
<1> SUFFICES ASSUME OutFlow
             PROVE  Usb!OutAccounts
  OBVIOUS
<1>1. /\ received \in Seq(Nat) /\ sending \in Seq(Nat) /\ out_ring \in Seq(Nat)
      /\ Inj(received) /\ Inj(sending) /\ Inj(out_ring)
      /\ outq \in Urbs /\ Apart(outq) /\ outDone \in Done
      /\ DataOf(outDone) \in Urbs /\ Apart(DataOf(outDone))
  BY AscIsInj, DataType DEF OutFlow
<1>2. ASSUME NEW u \in 1 .. written
      PROVE  Usb!Copies(u) = 1
  <2> DEFINE In(s) == Cardinality({ k \in 1 .. Len(s) : s[k] = u })
             inq == Cardinality({ k \in 1 .. Len(outq) : u \in Usb!Range(outq[k]) })
             done == Cardinality({ k \in 1 .. Len(outDone) : u \in Usb!Range(outDone[k].data) })
  <2>1. /\ In(received) = IF u \in Usb!Range(received) THEN 1 ELSE 0
        /\ In(sending) = IF u \in Usb!Range(sending) THEN 1 ELSE 0
        /\ In(out_ring) = IF u \in Usb!Range(out_ring) THEN 1 ELSE 0
    BY <1>1, PlacesInSeq
  <2>2. inq = IF u \in Units(outq) THEN 1 ELSE 0
    BY <1>1, PlacesInUrbs
  <2>3. { k \in 1 .. Len(outDone) : u \in Usb!Range(outDone[k].data) }
            = { k \in 1 .. Len(DataOf(outDone)) : u \in Usb!Range(DataOf(outDone)[k]) }
    BY <1>1, DataType, Zenon
  <2>4. done = IF u \in Units(DataOf(outDone)) THEN 1 ELSE 0
    BY <1>1, <2>3, PlacesInUrbs
  <2> HIDE DEF In, inq, done
  <2>5. Parts(written, Usb!Range(received), Usb!Range(sending), Usb!Range(out_ring), Units(outq),
              Units(DataOf(outDone)), lostOut)
    BY DEF OutFlow
  <2>6. In(received) + In(sending) + In(out_ring) + (IF u \in lostOut THEN 1 ELSE 0) + inq + done = 1
    BY <2>1, <2>2, <2>4, <2>5 DEF Parts
  <2>7. QED
    BY <2>6, UsbCardinality DEF Usb!Copies, In, inq, done
<1>3. fails = 0 => Asc(received)
  BY DEF OutFlow
<1>4. QED
  BY <1>2, <1>3 DEF Usb!OutAccounts, Asc

\* The inductive invariant.
CdcInv == CdcCtl /\ Lengths /\ Events /\ InFlow /\ OutFlow /\ UrbList

LEMMA CdcInit == Usb!Init => CdcInv
BY CtlInit, LengthsInit, EventsInit, InFlowInit, OutFlowInit, UrbListInit, Zenon DEF CdcInv

LEMMA CdcStep == Usb!CdcAssumption /\ CdcInv /\ [Usb!Next]_Usb!vars => CdcInv'
BY CtlStep, LengthsStep, EventsStep, InFlowStep, OutFlowStep, UrbListStep, Zenon DEF CdcInv

LEMMA CdcInvIsEnough ==
    CdcInv => Usb!LengthsAccount /\ Usb!InAccounts /\ Usb!OutAccounts /\ Usb!UrbsConserved
BY InFlowAccounts, OutFlowAccounts DEF CdcInv, Lengths, UrbList

\* For every number of URBs and every size of the rings and of a transfer, while
\* tasks, callbacks and disconnections interleave: the counters of the ring buffers
\* are what the rings hold and what is on its way to be counted, what comes from the
\* device is passed on in order, once each or counted as lost, what the user writes is
\* at one place, and no URB for writing is forgotten.
THEOREM CdcDataAccounted ==
    ASSUME Usb!CdcAssumption
    PROVE  Usb!Spec => [](Usb!LengthsAccount /\ Usb!InAccounts /\ Usb!OutAccounts
                                             /\ Usb!UrbsConserved)
<1>1. CdcInv /\ [Usb!Next]_Usb!vars => CdcInv'
  BY CdcStep
<1>2. QED
  BY <1>1, CdcInvIsEnough, CdcInit, PTL DEF Usb!Spec

-----------------------------------------------------------------------------
(* The two together. *)

LEMMA FirmwareMoves ==
    [MCNext]_allVars => [Next]_vars /\ [Usb!Next]_Usb!vars
<1>1. usbVars' = usbVars => Usb!vars' = Usb!vars
  BY Zenon DEF usbVars, Usb!vars, Usb!bus, Usb!proc, Usb!bits, Usb!inp, Usb!outp, Usb!inb,
               Usb!outb
<1>2. QED
  BY <1>1, Zenon DEF MCNext, LogMoves, UsbMoves, allVars

\* The same of the run's behaviours: the array of the log,
THEOREM FirmwareIdsAccount == MCSpec => []IdsAccount
<1>1. MCInit => Init
  BY DEF MCInit
<1>2. RingInv => IdsAccount
  BY DEF RingInv, RingIdle, IdsAccount
<1>3. QED
  BY <1>1, <1>2, FirmwareMoves, RingInit, RingStep, PTL DEF MCSpec

\* what the viewer shows,
THEOREM FirmwareViewIsExact == MCSpec => []ViewIsExact
<1>1. MCInit => Init
  BY DEF MCInit
<1>2. RingInv /\ ViewInv /\ RepeatInv => ViewIsExact
  BY ViewInvIsEnough
<1>3. QED
  BY <1>1, <1>2, FirmwareMoves, RingInit, ViewInit, RepeatInit, RingStep, ViewStep, RepeatStep,
     PTL DEF MCSpec

\* the end of the data task,
THEOREM FirmwareTeardown == MCSpec => []TeardownInOrder
<1>1. MCInit => Usb!Init
  BY DEF MCInit
<1>2. CdcCtl => TeardownInOrder
  BY DEF CdcCtl, TeardownInOrder, Usb!TeardownInOrder, Moving
<1>3. QED
  BY <1>1, <1>2, FirmwareMoves, CtlInit, CtlStep, PTL DEF MCSpec

\* and the data of the USB host driver.
THEOREM FirmwareUsbAccounts == MCSpec => []UsbAccounts
<1>1. MCInit => Usb!Init
  BY DEF MCInit
<1>2. CdcInv => UsbAccounts
  BY CdcInvIsEnough, Zenon DEF UsbAccounts
<1>3. CdcInv /\ [Usb!Next]_Usb!vars => CdcInv'
  BY FirmwareAssumption, CdcStep
<1>4. QED
  BY <1>1, <1>2, <1>3, FirmwareMoves, CdcInit, PTL DEF MCSpec
=============================================================================
