----------------------------- MODULE EspRb_proofs -----------------------------
(***************************************************************************)
(* Proofs about EspRb for every ring size, packet length and set of readers. *)
(* The invariant follows a copy through its two parts: what a first part     *)
(* leaves to the second is left only because it has reached the end of the   *)
(* buffer, and it fits before the other pointer.  From it follows, step by    *)
(* step, that the ring is a queue of bytes.                                  *)
(***************************************************************************)
EXTENDS EspRb, SequenceTheorems, TLAPS

LEMMA ModSmall ==
    ASSUME NEW n \in Nat \ {0}, NEW a \in 0 .. n - 1
    PROVE  a % n = a
OBVIOUS

LEMMA ModLarge ==
    ASSUME NEW n \in Nat \ {0}, NEW a \in n .. 2 * n - 1
    PROVE  a % n = a - n
OBVIOUS

LEMMA LesserType ==
    ASSUME NEW a \in Int, NEW b \in Int
    PROVE  /\ Lesser(a, b) \in {a, b}
           /\ Lesser(a, b) <= a /\ Lesser(a, b) <= b
BY DEF Lesser

\* The semaphore is held exactly by the process between down and up.
LockInv ==
    /\ sem = "writer" <=> Writing
    /\ \A r \in Readers : sem = r <=> Reading(r)

\* Where a pointer may stand at the end of the buffer, and what is left to copy.
CopyInv ==
    /\ wp = Size => wpc \in {"wrap", "up"}
    /\ rp = Size => \E r \in Readers : rpc[r] = "wrap"
    /\ wpc \in {"down", "copy"} => ret_len + done < PacketLen
    /\ wpc # "idle" => packet >= 1
    /\ wpc = "wrap" /\ todo > 0 => wp = Size /\ todo < rp
    /\ wpc = "second" /\ todo > 0 => wp = 0 /\ todo < rp
    /\ \A r \in Readers : /\ rpc[r] = "wrap" /\ left[r] > 0 => rp \in {wp, Size}
                          /\ rpc[r] = "second" => rp <= wp \/ left[r] = 0

RingInv == TypeOK /\ LockInv /\ CopyInv /\ PointersAccount

\* get_free_space returns the free cells but one.
LEMMA FreeSpaceIs ==
    ASSUME rp \in 0 .. Size - 1, wp \in 0 .. Size - 1
    PROVE  FreeSpace = Size - 1 - Distance
<1> USE SizeAssumption
<1>1. CASE rp = wp
  BY <1>1 DEF FreeSpace, Distance
<1>2. CASE rp > wp
  <2>1. (rp + Size - wp) % Size = rp - wp
    BY <1>2, ModLarge
  <2>2. QED
    BY <1>2, <2>1 DEF FreeSpace, Distance
<1>3. CASE rp < wp
  <2>1. (rp + Size - wp) % Size = rp + Size - wp
    BY <1>3, ModSmall
  <2>2. QED
    BY <1>3, <2>1 DEF FreeSpace, Distance
<1>4. QED
  BY <1>1, <1>2, <1>3

LEMMA InitRing == Init => RingInv
<1> SUFFICES ASSUME Init
             PROVE  RingInv
  OBVIOUS
<1> USE SizeAssumption, PacketsAssumption, ReadersAssumption DEF Init
<1>1. TypeOK
  BY DEF TypeOK, WriterStates, ReaderStates
<1>2. LockInv
  BY DEF LockInv, Writing, Reading
<1>3. CopyInv
  BY DEF CopyInv
<1>4. PointersAccount
  BY DEF PointersAccount, Distance
<1>5. QED
  BY <1>1, <1>2, <1>3, <1>4 DEF RingInv

\* What the holder of the semaphore may rely on: the pointers are inside the
\* buffer when it begins.
LEMMA Inside ==
    ASSUME RingInv
    PROVE  /\ wpc = "copy" => rp \in 0 .. Size - 1 /\ wp \in 0 .. Size - 1
           /\ wpc \in {"wrap", "second", "up"} => rp \in 0 .. Size - 1
           /\ \A r \in Readers : Reading(r) => wp \in 0 .. Size - 1
           /\ \A r \in Readers : rpc[r] \in {"test", "second"} => rp \in 0 .. Size - 1
<1> USE DEF RingInv, LockInv
<1>1. \A r, q \in Readers : Reading(r) /\ Reading(q) => r = q
  OBVIOUS
<1>2. \A r \in Readers : ~ (Writing /\ Reading(r))
  BY ReadersAssumption
<1>3. rp = Size => ~ Writing /\ \A r \in Readers : rpc[r] \notin {"test", "second"}
  BY <1>1, <1>2 DEF CopyInv, Reading
<1>4. wp = Size => \A r \in Readers : ~ Reading(r)
  BY <1>2 DEF CopyInv, Writing
<1>5. QED
  BY <1>3, <1>4, SizeAssumption DEF TypeOK, Writing, Reading, CopyInv

-----------------------------------------------------------------------------

\* What a first copy of the writer does to the pointers.
LEMMA FirstCopy ==
    ASSUME RingInv, WriteFirst
    PROVE  \E n \in Nat :
             /\ wp' = wp + n /\ used' = used + n /\ wp + n <= Size
             /\ used + n <= Size - 1 /\ used' = Distance'
             /\ todo' \in Nat /\ (todo' > 0 => wp' = Size /\ todo' < rp)
             /\ written' = n
<1> USE SizeAssumption, PacketsAssumption
<1> DEFINE want == PacketLen - ret_len - done
           sz   == Lesser(want, FreeSpace)
           n    == FirstPart(sz)
<1>1. /\ wpc = "copy" /\ FreeSpace > 0
      /\ wp' = wp + n /\ used' = used + n /\ rp' = rp
      /\ todo' = sz - n /\ written' = n
  BY Zenon DEF WriteFirst
<1>2. rp \in 0 .. Size - 1 /\ wp \in 0 .. Size - 1
  BY <1>1, Inside
<1>3. FreeSpace = Size - 1 - Distance
  BY <1>2, FreeSpaceIs
<1>4. used = Distance /\ used \in Nat
  BY DEF RingInv, PointersAccount, TypeOK
<1>5. want \in Nat \ {0}
  <2>1. ret_len + done < PacketLen /\ ret_len \in Nat /\ done \in Nat
    BY <1>1 DEF RingInv, CopyInv, TypeOK
  <2>2. QED
    BY <2>1
<1>6. sz \in Nat \ {0} /\ sz <= Size - 1 - used
  <2>1. FreeSpace \in Nat \ {0} /\ FreeSpace = Size - 1 - used
    BY <1>1, <1>3, <1>4
  <2>2. QED
    BY <1>5, <2>1 DEF Lesser
<1> HIDE DEF want, sz
<1>7. CASE wp >= rp
  <2>1. used = wp - rp
    BY <1>4, <1>7 DEF Distance
  <2>2. n = IF sz <= Size - wp THEN sz ELSE Size - wp
    BY <1>7 DEF FirstPart, Lesser
  <2>3. n \in Nat /\ wp + n <= Size /\ n <= sz /\ (sz - n > 0 => wp + n = Size /\ sz - n < rp)
    BY <1>2, <1>6, <2>1, <2>2
  <2>4. Distance' = wp + n - rp
    BY <1>1, <1>2, <1>7, <2>3 DEF Distance
  <2>5. QED
    BY <1>1, <1>2, <1>4, <1>6, <2>1, <2>3, <2>4
<1>8. CASE wp < rp
  <2>1. used = wp + Size - rp
    BY <1>2, <1>4, <1>8 DEF Distance
  <2>2. n = IF sz <= rp - wp - 1 THEN sz ELSE rp - wp - 1
    BY <1>2, <1>8 DEF FirstPart, Lesser
  <2>3. n = sz /\ wp + n < rp
    BY <1>2, <1>6, <2>1, <2>2
  <2>4. Distance' = wp + n + Size - rp
    BY <1>1, <1>2, <1>6, <1>8, <2>3 DEF Distance
  <2>5. QED
    BY <1>1, <1>2, <1>4, <1>6, <2>1, <2>3, <2>4
<1>9. QED
  BY <1>2, <1>7, <1>8

\* What the second copy of the writer does to them.
LEMMA SecondCopy ==
    ASSUME RingInv, WriteSecond
    PROVE  \E n \in Nat :
             /\ SecondPart = n
             /\ wp' = wp + n /\ used' = used + n /\ wp + n < Size
             /\ used + n <= Size - 1 /\ used' = Distance'
<1> USE SizeAssumption
<1> DEFINE n == SecondPart
<1>1. wpc = "second" /\ wp' = wp + n /\ used' = used + n /\ rp' = rp
  BY Zenon DEF WriteSecond
<1>2. rp \in 0 .. Size - 1 /\ wp \in 0 .. Size - 1 /\ todo \in Nat
  <2>1. wp # Size /\ wp \in 0 .. Size /\ todo \in Nat
    BY <1>1 DEF RingInv, CopyInv, TypeOK
  <2>2. QED
    BY <1>1, <2>1, Inside
<1>3. used = Distance /\ used \in Nat /\ used <= Size - 1
  BY DEF RingInv, PointersAccount, TypeOK
<1>4. todo > 0 => wp = 0 /\ todo < rp
  BY <1>1 DEF RingInv, CopyInv
<1>5. n = todo
  BY <1>2, <1>4 DEF SecondPart, Lesser
<1>6. Distance' = Distance + todo
  BY <1>1, <1>2, <1>4, <1>5 DEF Distance
<1>7. wp + todo < Size /\ used + todo <= Size - 1
  BY <1>2, <1>3, <1>4 DEF Distance
<1>8. QED
  BY <1>1, <1>2, <1>3, <1>5, <1>6, <1>7

\* What a copy to a reader does to them.
LEMMA ReaderCopy ==
    ASSUME RingInv, NEW r \in Readers, ReadFirst(r) \/ ReadSecond(r)
    PROVE  \E n \in Nat :
             /\ rp' = rp + n /\ used' = used - n /\ rp + n <= Size /\ n <= used
             /\ used' = Distance' /\ got' = Read(n)
             /\ ReadSecond(r) => rp + n < Size
             /\ ReadFirst(r) => /\ left' = [left EXCEPT ![r] = @ - n]
                                /\ left[r] - n \in Nat
                                /\ left[r] - n > 0 => rp + n \in {wp, Size}
<1> USE SizeAssumption
<1>1. /\ rp \in 0 .. Size - 1 /\ wp \in 0 .. Size - 1 /\ wp' = wp
  <2>1. Reading(r) /\ rpc[r] \in {"test", "second"} /\ wp' = wp
    BY Zenon DEF ReadFirst, ReadSecond, Reading
  <2>2. QED
    BY <2>1, Inside
<1>2. used = Distance /\ used \in Nat /\ left[r] \in Nat
  BY DEF RingInv, PointersAccount, TypeOK
<1>3. CASE ReadFirst(r)
  <2> DEFINE most == IF wp > rp THEN wp - rp ELSE Size - rp
             n    == Lesser(left[r], most)
  <2>1. /\ rp # wp /\ rp' = rp + n /\ used' = used - n /\ got' = Read(n)
        /\ left' = [left EXCEPT ![r] = @ - n] /\ rpc[r] = "test"
    BY <1>3, Zenon DEF ReadFirst
  <2>2. most \in Nat /\ most <= used /\ rp + most \in {wp, Size} /\ rp + most <= Size
    BY <1>1, <1>2, <2>1 DEF Distance
  <2>3. n \in Nat /\ n <= most /\ n <= left[r] /\ (left[r] - n > 0 => n = most)
    BY <1>2, <2>2 DEF Lesser
  <2> HIDE DEF n
  <2>4. Distance' = Distance - n
    BY <1>1, <2>1, <2>2, <2>3 DEF Distance
  <2>5. ~ ReadSecond(r)
    BY <2>1 DEF ReadSecond
  <2>6. /\ rp + n <= Size /\ n <= used /\ used' = Distance'
        /\ left[r] - n \in Nat /\ (left[r] - n > 0 => rp + n \in {wp, Size})
    BY <1>1, <1>2, <2>1, <2>2, <2>3, <2>4
  <2>7. QED
    BY <2>1, <2>3, <2>5, <2>6, Zenon
<1>4. CASE ReadSecond(r)
  <2> DEFINE n == IF left[r] > 0 THEN Lesser(left[r], wp - rp) ELSE 0
  <2>1. rpc[r] = "second" /\ rp' = rp + n /\ used' = used - n /\ got' = Read(n)
    BY <1>4, Zenon DEF ReadSecond
  <2>2. rp <= wp \/ left[r] = 0
    BY <2>1 DEF RingInv, CopyInv
  <2>3. n \in Nat /\ (n > 0 => n <= wp - rp)
    BY <1>1, <1>2, <2>2 DEF Lesser
  <2> HIDE DEF n
  <2>4. Distance' = Distance - n /\ n <= Distance /\ rp + n < Size
    BY <1>1, <2>1, <2>3 DEF Distance
  <2>5. ~ ReadFirst(r)
    BY <2>1 DEF ReadFirst
  <2>6. QED
    BY <1>1, <1>2, <2>1, <2>3, <2>4, <2>5
<1>5. QED
  BY <1>3, <1>4

-----------------------------------------------------------------------------

Copies == [0 .. Size - 1 -> Nat]

\* What is stored are numbers.
LEMMA StoredType ==
    ASSUME RingInv, wpc # "idle", NEW n \in Nat, NEW from \in Nat
    PROVE  Stored(n, from) \in Copies
<1>1. /\ packet - 1 \in Nat /\ PacketLen \in Nat /\ ret_len \in Nat /\ done \in Nat
      /\ buf \in Copies /\ wp \in Nat
  BY SizeAssumption, PacketsAssumption DEF RingInv, CopyInv, TypeOK, Copies
<1>2. (packet - 1) * PacketLen \in Nat
  BY <1>1
<1>3. ASSUME NEW i \in wp .. wp + n - 1
      PROVE  Data(from + 1 + i - wp) \in Nat
  BY <1>1, <1>2 DEF Data
<1>4. QED
  BY <1>1, <1>3 DEF Stored, Copies

LEMMA StepRing == RingInv /\ [Next]_vars => RingInv'
<1> SUFFICES ASSUME RingInv, [Next]_vars
             PROVE  RingInv'
  OBVIOUS
<1> USE SizeAssumption, PacketsAssumption, ReadersAssumption
<1>t. TypeOK /\ LockInv /\ CopyInv /\ PointersAccount
  BY DEF RingInv
<1>1. ASSUME PacketArrives
      PROVE  RingInv'
  <2>1. TypeOK'
    BY <1>1, <1>t DEF PacketArrives, TypeOK, WriterStates, ReaderStates, ring, writer, reader
  <2>2. LockInv'
    BY <1>1, <1>t DEF PacketArrives, TypeOK, LockInv, Writing, Reading, ring, writer, reader
  <2>3. CopyInv'
    BY <1>1, <1>t DEF PacketArrives, TypeOK, CopyInv, ring, writer, reader
  <2>4. PointersAccount'
    BY <1>1, <1>t DEF PacketArrives, PointersAccount, Distance, ring
  <2>5. QED
    BY <2>1, <2>2, <2>3, <2>4 DEF RingInv
<1>2. ASSUME WriterDown
      PROVE  RingInv'
  <2>1. TypeOK'
    BY <1>2, <1>t DEF WriterDown, TypeOK, WriterStates, ReaderStates, ring, writer, reader
  <2>2. LockInv'
    BY <1>2, <1>t DEF WriterDown, TypeOK, LockInv, Writing, Reading, ring, writer, reader
  <2>3. CopyInv'
    BY <1>2, <1>t DEF WriterDown, TypeOK, CopyInv, ring, writer, reader
  <2>4. PointersAccount'
    BY <1>2, <1>t DEF WriterDown, PointersAccount, Distance, ring
  <2>5. QED
    BY <2>1, <2>2, <2>3, <2>4 DEF RingInv
<1>3. ASSUME RingFull
      PROVE  RingInv'
  <2>1. TypeOK'
    BY <1>3, <1>t DEF RingFull, TypeOK, WriterStates, ReaderStates, ring, writer, reader
  <2>2. LockInv'
    BY <1>3, <1>t DEF RingFull, TypeOK, LockInv, Writing, Reading, ring, writer, reader
  <2>3. CopyInv'
    BY <1>3, <1>t DEF RingFull, TypeOK, CopyInv, ring, writer, reader
  <2>4. PointersAccount'
    BY <1>3, <1>t DEF RingFull, PointersAccount, Distance, ring
  <2>5. QED
    BY <2>1, <2>2, <2>3, <2>4 DEF RingInv
<1>4. ASSUME WriteFirst
      PROVE  RingInv'
  <2>1. PICK n \in Nat :
             /\ wp' = wp + n /\ used' = used + n /\ wp + n <= Size
             /\ used + n <= Size - 1 /\ used' = Distance'
             /\ todo' \in Nat /\ (todo' > 0 => wp' = Size /\ todo' < rp)
             /\ written' = n /\ buf' \in Copies
    BY <1>4, FirstCopy, StoredType DEF WriteFirst
  <2>2. /\ wpc = "copy" /\ wpc' = "wrap" /\ sem' = sem /\ rp' = rp
         /\ rpc' = rpc /\ mode' = mode /\ left' = left /\ seen' = seen /\ waiters' = waiters
         /\ packet' = packet /\ ret_len' = ret_len /\ done' = done
    BY <1>4, Zenon DEF WriteFirst, ring, writer, reader
  <2>3. TypeOK'
    BY <2>1, <2>2, <1>t DEF TypeOK, WriterStates, ReaderStates, Copies
  <2>4. LockInv'
    BY <2>2, <1>t DEF TypeOK, LockInv, Writing, Reading
  <2>5. CopyInv'
    BY <2>1, <2>2, <1>t DEF TypeOK, CopyInv, LockInv, Writing, Reading
  <2>6. PointersAccount'
    BY <2>1, <2>2, <1>t DEF PointersAccount, TypeOK
  <2>7. QED
    BY <2>1, <2>2, <2>3, <2>4, <2>5, <2>6 DEF RingInv
<1>5. ASSUME WriteWrap
      PROVE  RingInv'
  <2>1. used' = Distance' /\ wp' \in 0 .. Size - 1
         /\ (wp' = wp \/ (wp = Size /\ wp' = 0))
    <3>1. /\ wpc = "wrap" /\ rp' = rp /\ used' = used
          /\ wp' = IF wp = Size THEN 0 ELSE wp
      BY <1>5, Zenon DEF WriteWrap
    <3>2. rp \in 0 .. Size - 1 /\ wp \in 0 .. Size /\ used = Distance /\ used <= Size - 1
      BY <3>1, <1>t, Inside DEF TypeOK, PointersAccount
    <3>3. CASE wp = Size
      BY <3>1, <3>2, <3>3 DEF Distance
    <3>4. CASE wp # Size
      BY <3>1, <3>2, <3>4 DEF Distance
    <3>5. QED
      BY <3>3, <3>4
  <2>2. /\ wpc = "wrap" /\ wpc' = "second" /\ sem' = sem /\ rp' = rp
         /\ rpc' = rpc /\ mode' = mode /\ left' = left /\ seen' = seen /\ waiters' = waiters
         /\ packet' = packet /\ ret_len' = ret_len /\ done' = done
         /\ buf' = buf /\ used' = used /\ todo' = todo /\ written' = written
    BY <1>5, Zenon DEF WriteWrap, ring, writer, reader
  <2>3. TypeOK'
    BY <2>1, <2>2, <1>t DEF TypeOK, WriterStates, ReaderStates, Copies
  <2>4. LockInv'
    BY <2>2, <1>t DEF TypeOK, LockInv, Writing, Reading
  <2>5. CopyInv'
    BY <2>1, <2>2, <1>t DEF TypeOK, CopyInv, LockInv, Writing, Reading
  <2>6. PointersAccount'
    BY <2>1, <2>2, <1>t DEF PointersAccount, TypeOK
  <2>7. QED
    BY <2>1, <2>2, <2>3, <2>4, <2>5, <2>6 DEF RingInv
<1>6. ASSUME WriteSecond
      PROVE  RingInv'
  <2>1. PICK n \in Nat :
             /\ SecondPart = n
             /\ wp' = wp + n /\ used' = used + n /\ wp + n < Size
             /\ used + n <= Size - 1 /\ used' = Distance'
             /\ buf' \in Copies
    BY <1>6, <1>t, SecondCopy, StoredType DEF WriteSecond, TypeOK
  <2>2. /\ wpc = "second" /\ wpc' = "up" /\ sem' = sem /\ rp' = rp
         /\ rpc' = rpc /\ mode' = mode /\ left' = left /\ seen' = seen /\ waiters' = waiters
         /\ packet' = packet /\ ret_len' = ret_len /\ done' = done
         /\ todo' = 0 /\ written' = written + SecondPart
    BY <1>6, Zenon DEF WriteSecond, ring, writer, reader
  <2>3. TypeOK'
    BY <2>1, <2>2, <1>t DEF TypeOK, WriterStates, ReaderStates, Copies
  <2>4. LockInv'
    BY <2>2, <1>t DEF TypeOK, LockInv, Writing, Reading
  <2>5. CopyInv'
    BY <2>1, <2>2, <1>t DEF TypeOK, CopyInv, LockInv, Writing, Reading
  <2>6. PointersAccount'
    BY <2>1, <2>2, <1>t DEF PointersAccount, TypeOK
  <2>7. QED
    BY <2>1, <2>2, <2>3, <2>4, <2>5, <2>6 DEF RingInv
<1>7. ASSUME WriterUp
      PROVE  RingInv'
  <2>1. used' = Distance' /\ wp' \in 0 .. Size - 1
    BY <1>7, <1>t, Inside DEF WriterUp, TypeOK, PointersAccount, Distance
  <2>2. /\ wpc = "up" /\ wpc' = "wake" /\ sem' = "free" /\ rp' = rp
         /\ rpc' = rpc /\ mode' = mode /\ left' = left /\ seen' = seen /\ waiters' = waiters
         /\ packet' = packet /\ ret_len' = ret_len /\ done' = done
         /\ buf' = buf /\ used' = used /\ todo' = todo /\ written' = written
    BY <1>7, Zenon DEF WriterUp, ring, writer, reader
  <2>3. TypeOK'
    BY <2>1, <2>2, <1>t DEF TypeOK, WriterStates, ReaderStates, Copies
  <2>4. LockInv'
    BY <2>2, <1>t DEF TypeOK, LockInv, Writing, Reading
  <2>5. CopyInv'
    BY <2>1, <2>2, <1>t DEF TypeOK, CopyInv, LockInv, Writing, Reading
  <2>6. PointersAccount'
    BY <2>1, <2>2, <1>t DEF PointersAccount, TypeOK
  <2>7. QED
    BY <2>1, <2>2, <2>3, <2>4, <2>5, <2>6 DEF RingInv
<1>8. ASSUME WakeUp
      PROVE  RingInv'
  <2>1. TypeOK'
    BY <1>8, <1>t DEF WakeUp, Unwoken, TypeOK, WriterStates, ReaderStates, ring, writer, reader
  <2>2. LockInv'
    BY <1>8, <1>t DEF WakeUp, TypeOK, LockInv, Writing, Reading, ring, writer, reader
  <2>3. CopyInv'
    BY <1>8, <1>t DEF WakeUp, TypeOK, CopyInv, ring, writer, reader
  <2>4. PointersAccount'
    BY <1>8, <1>t DEF WakeUp, PointersAccount, Distance, ring
  <2>5. QED
    BY <2>1, <2>2, <2>3, <2>4 DEF RingInv
<1>9. ASSUME NEW r \in Readers, Call(r)
      PROVE  RingInv'
  <2>1. TypeOK'
    BY <1>9, <1>t DEF Call, Becomes, Returns, TypeOK, WriterStates, ReaderStates, ring, writer, reader
  <2>2. LockInv'
    BY <1>9, <1>t DEF Call, Becomes, Returns, TypeOK, LockInv, Writing, Reading, ring, writer, reader
  <2>3. CopyInv'
    BY <1>9, <1>t DEF Call, Becomes, Returns, TypeOK, CopyInv, ring, writer, reader
  <2>4. PointersAccount'
    BY <1>9, <1>t DEF Call, PointersAccount, Distance, ring
  <2>5. QED
    BY <2>1, <2>2, <2>3, <2>4 DEF RingInv
<1>10. ASSUME NEW r \in Readers, ReaderDown(r)
      PROVE  RingInv'
  <2>1. TypeOK'
    BY <1>10, <1>t DEF ReaderDown, Becomes, Returns, TypeOK, WriterStates, ReaderStates, ring, writer, reader
  <2>2. LockInv'
    BY <1>10, <1>t DEF ReaderDown, Becomes, Returns, TypeOK, LockInv, Writing, Reading, ring, writer, reader
  <2>3. CopyInv'
    BY <1>10, <1>t DEF ReaderDown, Becomes, Returns, TypeOK, CopyInv, ring, writer, reader
  <2>4. PointersAccount'
    BY <1>10, <1>t DEF ReaderDown, PointersAccount, Distance, ring
  <2>5. QED
    BY <2>1, <2>2, <2>3, <2>4 DEF RingInv
<1>11. ASSUME NEW r \in Readers, FoundEmpty(r)
      PROVE  RingInv'
  <2>1. TypeOK'
    <3>1. /\ UNCHANGED << ring, writer >>
          /\ sem' \in {sem, "free"} /\ waiters' \subseteq waiters
      BY <1>11, Zenon DEF FoundEmpty
    <3>2. /\ rpc' \in [Readers -> ReaderStates]
          /\ mode' \in [Readers -> {"block", "nonblock", "poll"}]
          /\ left' \in [Readers -> Nat]
          /\ seen' \in [Readers -> 0 .. Size]
      <4>1. CASE mode[r] = "block"
        <5>1. rpc' = [rpc EXCEPT ![r] = "register"] /\ UNCHANGED << mode, left, seen >>
          BY <1>11, <4>1, Zenon DEF FoundEmpty, Becomes
        <5>2. QED
          BY <5>1, <1>t DEF TypeOK, ReaderStates
      <4>2. CASE mode[r] # "block"
        <5>1. Returns(r)
          BY <1>11, <4>2, Zenon DEF FoundEmpty
        <5>2. QED
          BY <5>1, <1>t DEF Returns, Becomes, TypeOK, ReaderStates
      <4>3. QED
        BY <4>1, <4>2, Zenon
    <3>3. QED
      BY <3>1, <3>2, <1>t DEF TypeOK, ring, writer
  <2>2. LockInv'
    BY <1>11, <1>t DEF FoundEmpty, Becomes, Returns, TypeOK, LockInv, Writing, Reading, ring, writer, reader
  <2>3. CopyInv'
    BY <1>11, <1>t DEF FoundEmpty, Becomes, Returns, TypeOK, CopyInv, ring, writer, reader
  <2>4. PointersAccount'
    BY <1>11, <1>t DEF FoundEmpty, PointersAccount, Distance, ring
  <2>5. QED
    BY <2>1, <2>2, <2>3, <2>4 DEF RingInv
<1>12. ASSUME NEW r \in Readers, Register(r)
      PROVE  RingInv'
  <2>1. TypeOK'
    BY <1>12, <1>t DEF Register, Becomes, Returns, TypeOK, WriterStates, ReaderStates, ring, writer, reader
  <2>2. LockInv'
    BY <1>12, <1>t DEF Register, Becomes, Returns, TypeOK, LockInv, Writing, Reading, ring, writer, reader
  <2>3. CopyInv'
    BY <1>12, <1>t DEF Register, Becomes, Returns, TypeOK, CopyInv, ring, writer, reader
  <2>4. PointersAccount'
    BY <1>12, <1>t DEF Register, PointersAccount, Distance, ring
  <2>5. QED
    BY <2>1, <2>2, <2>3, <2>4 DEF RingInv
<1>13. ASSUME NEW r \in Readers, Check(r)
      PROVE  RingInv'
  <2>1. TypeOK'
    <3>1. /\ UNCHANGED << ring, writer >>
          /\ sem' \in {sem, "free"} /\ waiters' \subseteq waiters
      BY <1>13, Zenon DEF Check
    <3>2. /\ rpc' \in [Readers -> ReaderStates]
          /\ mode' \in [Readers -> {"block", "nonblock", "poll"}]
          /\ left' \in [Readers -> Nat]
          /\ seen' \in [Readers -> 0 .. Size]
      <4>1. /\ rpc' = [rpc EXCEPT ![r] = "down"] \/ rpc' = [rpc EXCEPT ![r] = "asleep"]
            /\ UNCHANGED << mode, left >> /\ seen' = [seen EXCEPT ![r] = 0]
        BY <1>13, Zenon DEF Check, Becomes
      <4>2. QED
        BY <4>1, <1>t DEF TypeOK, ReaderStates
    <3>3. QED
      BY <3>1, <3>2, <1>t DEF TypeOK, ring, writer
  <2>2. LockInv'
    BY <1>13, <1>t DEF Check, Becomes, Returns, TypeOK, LockInv, Writing, Reading, ring, writer, reader
  <2>3. CopyInv'
    BY <1>13, <1>t DEF Check, Becomes, Returns, TypeOK, CopyInv, ring, writer, reader
  <2>4. PointersAccount'
    BY <1>13, <1>t DEF Check, PointersAccount, Distance, ring
  <2>5. QED
    BY <2>1, <2>2, <2>3, <2>4 DEF RingInv
<1>14. ASSUME NEW r \in Readers, IsWoken(r)
      PROVE  RingInv'
  <2>1. TypeOK'
    BY <1>14, <1>t DEF IsWoken, Becomes, Returns, TypeOK, WriterStates, ReaderStates, ring, writer, reader
  <2>2. LockInv'
    BY <1>14, <1>t DEF IsWoken, Becomes, Returns, TypeOK, LockInv, Writing, Reading, ring, writer, reader
  <2>3. CopyInv'
    BY <1>14, <1>t DEF IsWoken, Becomes, Returns, TypeOK, CopyInv, ring, writer, reader
  <2>4. PointersAccount'
    BY <1>14, <1>t DEF IsWoken, PointersAccount, Distance, ring
  <2>5. QED
    BY <2>1, <2>2, <2>3, <2>4 DEF RingInv
<1>15. ASSUME NEW r \in Readers, ReadFirst(r)
      PROVE  RingInv'
  <2>1. PICK n \in Nat :
             /\ rp' = rp + n /\ used' = used - n /\ rp + n <= Size /\ n <= used
             /\ used' = Distance'
             /\ left' = [left EXCEPT ![r] = @ - n]
             /\ left[r] - n \in Nat
             /\ left[r] - n > 0 => rp + n \in {wp, Size}
    BY <1>15, ReaderCopy
  <2>2. /\ rpc[r] = "test" /\ rpc' = [rpc EXCEPT ![r] = "wrap"] /\ sem' = sem
         /\ wpc' = wpc /\ todo' = todo /\ written' = written /\ packet' = packet /\ ret_len' = ret_len /\ done' = done
         /\ buf' = buf /\ wp' = wp /\ waiters' = waiters
         /\ mode' = mode /\ seen' = seen
    BY <1>15, Zenon DEF ReadFirst, Becomes, Returns, ring, writer, reader
  <2>3. TypeOK'
    BY <2>1, <2>2, <1>t DEF TypeOK, WriterStates, ReaderStates, Copies
  <2>4. LockInv'
    BY <2>2, <1>t DEF TypeOK, LockInv, Writing, Reading
  <2>5. CopyInv'
    BY <2>1, <2>2, <1>t DEF TypeOK, CopyInv, LockInv, Writing, Reading
  <2>6. PointersAccount'
    BY <2>1, <2>2, <1>t DEF PointersAccount, TypeOK
  <2>7. QED
    BY <2>1, <2>2, <2>3, <2>4, <2>5, <2>6 DEF RingInv
<1>16. ASSUME NEW r \in Readers, ReadWrap(r)
      PROVE  RingInv'
  <2>1. used' = Distance' /\ rp' \in 0 .. Size - 1
         /\ (rp' = rp \/ (rp = Size /\ rp' = 0))
    <3>1. /\ rpc[r] = "wrap" /\ wp' = wp /\ used' = used
          /\ rp' = IF rp = Size THEN 0 ELSE rp
      BY <1>16, Zenon DEF ReadWrap, WrapRead
    <3>2. rp \in 0 .. Size /\ wp \in 0 .. Size - 1 /\ used = Distance /\ used <= Size - 1
      BY <3>1, <1>t, Inside DEF TypeOK, PointersAccount, Reading
    <3>3. CASE rp = Size
      BY <3>1, <3>2, <3>3 DEF Distance
    <3>4. CASE rp # Size
      BY <3>1, <3>2, <3>4 DEF Distance
    <3>5. QED
      BY <3>3, <3>4
  <2>2. /\ rpc[r] = "wrap" /\ rpc' = [rpc EXCEPT ![r] = "second"] /\ sem' = sem
         /\ wpc' = wpc /\ todo' = todo /\ written' = written /\ packet' = packet /\ ret_len' = ret_len /\ done' = done
         /\ buf' = buf /\ wp' = wp /\ waiters' = waiters
         /\ mode' = mode /\ seen' = seen /\ left' = left /\ used' = used
    BY <1>16, Zenon DEF ReadWrap, Becomes, Returns, ring, writer, reader
  <2>3. TypeOK'
    BY <2>1, <2>2, <1>t DEF TypeOK, WriterStates, ReaderStates, Copies
  <2>4. LockInv'
    BY <2>2, <1>t DEF TypeOK, LockInv, Writing, Reading
  <2>5. CopyInv'
    BY <2>1, <2>2, <1>t DEF TypeOK, CopyInv, LockInv, Writing, Reading
  <2>6. PointersAccount'
    BY <2>1, <2>2, <1>t DEF PointersAccount, TypeOK
  <2>7. QED
    BY <2>1, <2>2, <2>3, <2>4, <2>5, <2>6 DEF RingInv
<1>17. ASSUME NEW r \in Readers, ReadSecond(r)
      PROVE  RingInv'
  <2>1. PICK n \in Nat :
             /\ rp' = rp + n /\ used' = used - n /\ rp + n < Size /\ n <= used
             /\ used' = Distance' 
    BY <1>17, ReaderCopy
  <2>2. /\ rpc[r] = "second" /\ rpc' = [rpc EXCEPT ![r] = "idle"] /\ sem' = "free"
         /\ wpc' = wpc /\ todo' = todo /\ written' = written /\ packet' = packet /\ ret_len' = ret_len /\ done' = done
         /\ buf' = buf /\ wp' = wp /\ waiters' = waiters
         /\ mode' = [mode EXCEPT ![r] = "block"] /\ seen' = [seen EXCEPT ![r] = 0]
         /\ left' = [left EXCEPT ![r] = 0]
    BY <1>17, Zenon DEF ReadSecond, Becomes, Returns, ring, writer, reader
  <2>3. TypeOK'
    BY <2>1, <2>2, <1>t DEF TypeOK, WriterStates, ReaderStates, Copies
  <2>4. LockInv'
    BY <2>2, <1>t DEF TypeOK, LockInv, Writing, Reading
  <2>5. CopyInv'
    BY <2>1, <2>2, <1>t DEF TypeOK, CopyInv, LockInv, Writing, Reading
  <2>6. PointersAccount'
    BY <2>1, <2>2, <1>t DEF PointersAccount, TypeOK
  <2>7. QED
    BY <2>1, <2>2, <2>3, <2>4, <2>5, <2>6 DEF RingInv
<1>18. ASSUME NEW r \in Readers, ReadFails(r)
      PROVE  RingInv'
  <2>1. TypeOK'
    BY <1>18, <1>t DEF ReadFails, Becomes, Returns, TypeOK, WriterStates, ReaderStates, ring, writer, reader
  <2>2. LockInv'
    BY <1>18, <1>t DEF ReadFails, Becomes, Returns, TypeOK, LockInv, Writing, Reading, ring, writer, reader
  <2>3. CopyInv'
    BY <1>18, <1>t DEF ReadFails, Becomes, Returns, TypeOK, CopyInv, ring, writer, reader
  <2>4. PointersAccount'
    BY <1>18, <1>t DEF ReadFails, PointersAccount, Distance, ring
  <2>5. QED
    BY <2>1, <2>2, <2>3, <2>4 DEF RingInv
<1>19. ASSUME NEW r \in Readers, Interrupted(r)
      PROVE  RingInv'
  <2>1. TypeOK'
    BY <1>19, <1>t DEF Interrupted, Becomes, Returns, TypeOK, WriterStates, ReaderStates, ring, writer, reader
  <2>2. LockInv'
    BY <1>19, <1>t DEF Interrupted, Becomes, Returns, TypeOK, LockInv, Writing, Reading, ring, writer, reader
  <2>3. CopyInv'
    BY <1>19, <1>t DEF Interrupted, Becomes, Returns, TypeOK, CopyInv, ring, writer, reader
  <2>4. PointersAccount'
    BY <1>19, <1>t DEF Interrupted, PointersAccount, Distance, ring
  <2>5. QED
    BY <2>1, <2>2, <2>3, <2>4 DEF RingInv
<1>20. CASE UNCHANGED vars
  BY <1>20, <1>t DEF vars, ring, writer, reader, RingInv, TypeOK, LockInv, CopyInv,
       PointersAccount, Distance, Writing, Reading
<1>21. QED
  BY <1>1, <1>2, <1>3, <1>4, <1>5, <1>6, <1>7, <1>8, <1>9, <1>10, <1>11, <1>12, <1>13, <1>14, <1>15, <1>16, <1>17, <1>18, <1>19, <1>20 DEF Next, Writer, Reader

-----------------------------------------------------------------------------

\* The variables keep their types: the pointers stay within the buffer.
THEOREM RingTypeCorrect == Spec => []TypeOK
<1>1. Init => RingInv
  BY InitRing
<1>2. RingInv /\ [Next]_vars => RingInv'
  BY StepRing
<1>3. RingInv => TypeOK
  BY DEF RingInv
<1>4. QED
  BY <1>1, <1>2, <1>3, PTL DEF Spec

\* For every size of the ring and every number of readers the two pointers account
\* for the bytes stored and not yet read, of which there are at most Size - 1: the
\* writer never overwrites an unread byte and a reader never reads a stale one.
THEOREM PointersAreExact == Spec => []PointersAccount
<1>1. Init => RingInv
  BY InitRing
<1>2. RingInv /\ [Next]_vars => RingInv'
  BY StepRing
<1>3. RingInv => PointersAccount
  BY DEF RingInv
<1>4. QED
  BY <1>1, <1>2, <1>3, PTL DEF Spec

-----------------------------------------------------------------------------
(* The ring is a queue *)

\* What has been received, and what a call may still store, are bytes of a packet.
DataInv ==
    /\ packet <= Packets
    /\ wpc \in {"wrap", "second"} => ret_len + done + written + todo <= PacketLen

LEMMA InitData == Init => DataInv
  BY PacketsAssumption DEF Init, DataInv

LEMMA StepData == RingInv /\ DataInv /\ [Next]_vars => DataInv'
<1> SUFFICES ASSUME RingInv, DataInv, [Next]_vars
             PROVE  DataInv'
  OBVIOUS
<1> USE PacketsAssumption
<1>t. packet \in Nat /\ ret_len \in Nat /\ done \in Nat /\ todo \in Nat /\ written \in Nat
  BY DEF RingInv, TypeOK
<1>1. CASE PacketArrives
  BY <1>t, <1>1 DEF PacketArrives, DataInv
<1>2. CASE WriterDown \/ RingFull \/ WriterUp \/ WakeUp
  <2>1. UNCHANGED packet /\ wpc' \in {"copy", "down", "wake", "idle"}
    BY <1>2, Zenon DEF WriterDown, RingFull, WriterUp, WakeUp
  <2>2. QED
    BY <2>1 DEF DataInv
<1>3. CASE WriteFirst
  <2>1. FreeSpace \in Int
    <3>1. rp \in 0 .. Size - 1 /\ wp \in 0 .. Size - 1
      BY <1>3, Inside DEF WriteFirst
    <3>2. QED
      BY <3>1, FreeSpaceIs, SizeAssumption DEF Distance
  <2> DEFINE sz == Lesser(PacketLen - ret_len - done, FreeSpace)
             n  == FirstPart(sz)
  <2>2. /\ UNCHANGED << packet, ret_len, done >> /\ written' = n /\ todo' = sz - n
    BY <1>3, Zenon DEF WriteFirst
  <2>3. sz \in Int /\ sz <= PacketLen - ret_len - done
    BY <1>t, <2>1 DEF Lesser
  <2> HIDE DEF sz
  <2>4. n \in Int
    BY <2>3, SizeAssumption DEF FirstPart, Lesser, RingInv, TypeOK
  <2> HIDE DEF n
  <2>5. QED
    BY <1>t, <2>2, <2>3, <2>4 DEF DataInv
<1>4. CASE WriteWrap
  <2>1. wpc = "wrap" /\ UNCHANGED << packet, ret_len, done, todo, written >>
    BY <1>4, Zenon DEF WriteWrap
  <2>2. QED
    BY <2>1 DEF DataInv
<1>5. CASE WriteSecond
  <2>1. wpc' = "up" /\ UNCHANGED packet
    BY <1>5, Zenon DEF WriteSecond
  <2>2. QED
    BY <2>1 DEF DataInv
<1>6. CASE \/ UNCHANGED vars
           \/ \E r \in Readers : Call(r) \/ Reader(r) \/ ReadFails(r) \/ Interrupted(r)
  <2>1. UNCHANGED writer
    BY <1>6, Zenon DEF vars, Call, Reader, ReaderDown, FoundEmpty, Register, Check, IsWoken,
                       ReadFirst, ReadWrap, ReadSecond, ReadFails, Interrupted
  <2>2. UNCHANGED << wpc, packet, ret_len, done, todo, written >>
    BY <2>1 DEF writer
  <2>3. QED
    BY <2>2 DEF DataInv
<1>7. QED
  BY <1>1, <1>2, <1>3, <1>4, <1>5, <1>6 DEF Next, Writer

\* The bytes of a packet are numbered one after the other.
LEMMA DataIsByte ==
    ASSUME RingInv, DataInv, wpc # "idle", NEW k \in Nat \ {0},
           ret_len + done + k <= PacketLen
    PROVE  Data(k) \in Byte
<1>1. /\ packet \in 1 .. Packets /\ PacketLen \in Nat /\ Packets \in Nat
      /\ ret_len \in Nat /\ done \in Nat
  BY PacketsAssumption DEF RingInv, CopyInv, TypeOK, DataInv
<1> DEFINE base == (packet - 1) * PacketLen
<1>2. base \in Nat
  BY <1>1
<1>3. (Packets - packet) * PacketLen \in Nat
  BY <1>1
<1>4. Packets * PacketLen = base + PacketLen + (Packets - packet) * PacketLen
  BY <1>1
<1>5. Packets * PacketLen >= base + PacketLen /\ Packets * PacketLen \in Nat
  BY <1>1, <1>2, <1>3, <1>4
<1> HIDE DEF base
<1>6. base + ret_len + done + k \in 1 .. Packets * PacketLen
  BY <1>1, <1>2, <1>5
<1>7. QED
  BY <1>6 DEF Data, Byte, base

\* The place of a byte in the buffer.
Cell(i) == IF rp + i - 1 < Size THEN rp + i - 1 ELSE rp + i - 1 - Size

ContentsKnown ==
    /\ Contents \in Seq(Nat) /\ Len(Contents) = used
    /\ \A i \in 1 .. used : Cell(i) \in 0 .. Size - 1 /\ Contents[i] = buf[Cell(i)]

LEMMA ContentsAre == RingInv => ContentsKnown
<1> SUFFICES ASSUME RingInv
             PROVE  ContentsKnown
  OBVIOUS
<1>1. /\ rp \in 0 .. Size /\ used \in Nat /\ used <= Size - 1 /\ Size \in Nat \ {0}
      /\ buf \in [0 .. Size - 1 -> Nat]
  BY SizeAssumption DEF RingInv, TypeOK, PointersAccount
<1>2. ASSUME NEW i \in 1 .. used
      PROVE  (rp + i - 1) % Size = Cell(i) /\ Cell(i) \in 0 .. Size - 1
  <2>1. CASE rp + i - 1 < Size
    <3>1. rp + i - 1 \in 0 .. Size - 1
      BY <1>1, <2>1
    <3>2. QED
      BY <1>1, <2>1, <3>1, ModSmall DEF Cell
  <2>2. CASE rp + i - 1 >= Size
    <3> DEFINE a == rp + i - 1
    <3>1. a \in Size .. 2 * Size - 1
      BY <1>1, <2>2
    <3>2. Cell(i) = a - Size /\ Cell(i) \in 0 .. Size - 1
      BY <1>1, <2>2, <3>1 DEF Cell
    <3> HIDE DEF a
    <3>3. a % Size = a - Size
      BY <1>1, <3>1, ModLarge
    <3>4. QED
      BY <3>2, <3>3 DEF a
  <2>3. QED
    BY <1>1, <2>1, <2>2
<1>3. Contents \in [1 .. used -> Nat] /\ \A i \in 1 .. used : Contents[i] = buf[Cell(i)]
  BY <1>1, <1>2 DEF Contents
<1>4. Contents \in Seq(Nat)
  BY <1>1, <1>3, SeqDef
<1>5. Len(Contents) = used
  BY <1>1, <1>3, <1>4, LenProperties
<1>6. QED
  BY <1>2, <1>3, <1>4, <1>5 DEF ContentsKnown

LEMMA ContentsNext == RingInv' => ContentsKnown'
  BY ContentsAre, PTL

\* What neither stores nor takes leaves the queue as it is, also where a pointer wraps.
LEMMA NothingMoves ==
    ASSUME RingInv, RingInv', UNCHANGED << buf, used >>,
           rp' = rp \/ (rp = Size /\ rp' = 0), got' = << >>
    PROVE  Ring!Rest
<1>1. /\ rp \in 0 .. Size /\ used \in Nat /\ used <= Size - 1 /\ Size \in Nat \ {0}
  BY SizeAssumption DEF RingInv, TypeOK, PointersAccount
<1>2. /\ Contents' \in Seq(Nat) /\ Len(Contents') = used
      /\ \A i \in 1 .. used : Contents'[i] = buf[Cell(i)']
  BY ContentsNext DEF ContentsKnown
<1>3. \A i \in 1 .. used : Cell(i)' = Cell(i)
  BY <1>1 DEF Cell
<1>4. /\ Contents \in Seq(Nat) /\ Len(Contents) = used
      /\ \A i \in 1 .. used : Contents[i] = buf[Cell(i)]
  BY ContentsAre DEF ContentsKnown
<1>5. Contents' = Contents
  <2>1. \A i \in 1 .. Len(Contents') : Contents'[i] = Contents[i]
    BY <1>2, <1>3, <1>4
  <2>2. QED
    BY <1>2, <1>4, <2>1, SeqEqual
<1>6. QED
  BY <1>5 DEF Ring!Rest

\* A copy of the writer appends its bytes to the queue.
LEMMA CopyPuts ==
    ASSUME RingInv, RingInv', DataInv, wpc # "idle",
           rp \in 0 .. Size - 1, wp \in 0 .. Size - 1,
           NEW n \in Nat, NEW from \in Nat, ret_len + done + from + n <= PacketLen,
           wp + n <= Size, used + n <= Size - 1,
           buf' = Stored(n, from), used' = used + n, rp' = rp, got' = << >>
    PROVE  Ring!Put \/ Ring!Rest
<1>1. /\ used \in Nat /\ Size \in Nat \ {0} /\ buf \in [0 .. Size - 1 -> Nat]
      /\ used = IF wp >= rp THEN wp - rp ELSE wp + Size - rp
      /\ ret_len \in Nat /\ done \in Nat /\ PacketLen \in Nat
  BY SizeAssumption, PacketsAssumption DEF RingInv, TypeOK, PointersAccount, Distance
<1>2. \A i \in 0 .. Size - 1 :
         buf'[i] = IF i \in wp .. wp + n - 1 THEN Data(from + 1 + i - wp) ELSE buf[i]
  BY Zenon DEF Stored
<1>3. CASE n = 0
  <2>1. buf' = [i \in 0 .. Size - 1 |-> buf[i]]
    BY <1>1, <1>3 DEF Stored
  <2>2. buf' = buf
    BY <1>1, <2>1
  <2>3. QED
    BY <1>1, <1>3, <2>2, NothingMoves
<1>4. CASE n > 0
  <2> DEFINE s == [j \in 1 .. n |-> Data(from + j)]
  <2>1. \A j \in 1 .. n : Data(from + j) \in Byte
    <3>1. ASSUME NEW j \in 1 .. n
          PROVE  from + j \in Nat \ {0} /\ ret_len + done + (from + j) <= PacketLen
      BY <1>1
    <3>2. QED
      BY <3>1, DataIsByte
  <2>2. s \in [1 .. n -> Byte]
    BY <2>1
  <2>3. Byte \subseteq Nat
    BY DEF Byte
  <2>4. s \in [1 .. n -> Nat]
    BY <2>2, <2>3
  <2>5. s \in Seq(Nat)
    BY <2>4, SeqDef
  <2>6. Len(s) = n
    BY <2>4, <2>5, LenProperties
  <2>7. \A j \in 1 .. n : s[j] = Data(from + j)
    OBVIOUS
  <2> HIDE DEF s
  <2>8. /\ Contents \in Seq(Nat) /\ Len(Contents) = used
        /\ \A i \in 1 .. used : Cell(i) \in 0 .. Size - 1 /\ Contents[i] = buf[Cell(i)]
    BY ContentsAre DEF ContentsKnown
  <2>9. /\ Contents' \in Seq(Nat) /\ Len(Contents') = used + n
        /\ \A i \in 1 .. used + n :
              Cell(i)' \in 0 .. Size - 1 /\ Contents'[i] = buf'[Cell(i)']
    BY ContentsNext, SizeAssumption DEF ContentsKnown
  <2>10. \A i \in 1 .. used + n : Cell(i) \in 0 .. Size - 1 /\ Contents'[i] = buf'[Cell(i)]
    <3>1. \A i \in 1 .. used + n : Cell(i)' = Cell(i)
      BY DEF Cell
    <3>2. QED
      BY <2>9, <3>1
  <2>11. ASSUME NEW i \in 1 .. used
         PROVE  Contents'[i] = Contents[i]
    <3>1. Cell(i) \notin wp .. wp + n - 1
      BY <1>1 DEF Cell
    <3>2. Contents'[i] = buf'[Cell(i)] /\ Cell(i) \in 0 .. Size - 1
      <4>1. i \in 1 .. used + n
        BY <1>1
      <4>2. QED
        BY <2>10, <4>1
    <3>3. buf'[Cell(i)] = buf[Cell(i)]
      BY <1>2, <3>1, <3>2
    <3>4. QED
      BY <2>8, <3>2, <3>3
  <2>12. ASSUME NEW j \in 1 .. n
         PROVE  Contents'[used + j] = s[j]
    <3>1. Cell(used + j) = wp + j - 1
      BY <1>1 DEF Cell
    <3>2. Contents'[used + j] = buf'[wp + j - 1] /\ wp + j - 1 \in 0 .. Size - 1
      <4>1. used + j \in 1 .. used + n
        BY <1>1
      <4>2. QED
        BY <2>10, <3>1, <4>1
    <3>3. buf'[wp + j - 1] = Data(from + 1 + (wp + j - 1) - wp)
      BY <1>2, <3>2
    <3>4. from + 1 + (wp + j - 1) - wp = from + j
      OBVIOUS
    <3>5. QED
      BY <2>7, <3>2, <3>3, <3>4
  <2> DEFINE cat == Contents \o s
  <2>13. /\ cat \in Seq(Nat) /\ Len(cat) = used + n
         /\ \A i \in 1 .. used + n : cat[i] = IF i <= used THEN Contents[i] ELSE s[i - used]
    BY <2>5, <2>6, <2>8, ConcatProperties
  <2> HIDE DEF cat
  <2>14. ASSUME NEW i \in 1 .. used + n
         PROVE  Contents'[i] = cat[i]
    <3>1. CASE i <= used
      <4>1. i \in 1 .. used
        BY <1>1, <3>1
      <4>2. QED
        BY <2>11, <2>13, <3>1, <4>1
    <3>2. CASE i > used
      <4>1. i - used \in 1 .. n /\ i = used + (i - used) /\ ~ (i <= used)
        BY <1>1, <3>2
      <4>2. cat[i] = s[i - used]
        BY <2>13, <4>1
      <4>3. Contents'[used + (i - used)] = s[i - used]
        BY <2>12, <4>1
      <4>4. QED
        BY <4>1, <4>2, <4>3
    <3>3. QED
      BY <1>1, <3>1, <3>2
  <2>15. Contents' = Contents \o s
    <3>1. \A i \in 1 .. Len(Contents') : Contents'[i] = cat[i]
      BY <2>9, <2>14
    <3>2. Contents' = cat
      BY <2>9, <2>13, <3>1, SeqEqual
    <3>3. QED
      BY <3>2 DEF cat
  <2>16. n \in 1 .. (Size - 1) - Len(Contents)
    BY <1>1, <1>4, <2>8
  <2>17. Ring!Put
    BY <2>2, <2>15, <2>16, Zenon DEF Ring!Put
  <2>18. QED
    BY <2>17
<1>5. QED
  BY <1>3, <1>4

\* A copy to a reader takes the oldest bytes.
LEMMA CopyTakes ==
    ASSUME RingInv, RingInv', rp \in 0 .. Size - 1,
           NEW n \in Nat, n <= used, rp + n <= Size,
           buf' = buf, used' = used - n, rp' = rp + n, got' = Read(n)
    PROVE  Ring!Take \/ Ring!Rest
<1>1. used \in Nat /\ Size \in Nat \ {0}
  BY SizeAssumption DEF RingInv, TypeOK
<1>2. /\ Contents \in Seq(Nat) /\ Len(Contents) = used
      /\ \A i \in 1 .. used : Contents[i] = buf[Cell(i)]
  BY ContentsAre DEF ContentsKnown
<1>3. /\ Contents' \in Seq(Nat) /\ Len(Contents') = used - n
      /\ \A i \in 1 .. used - n : Contents'[i] = buf[Cell(i)']
  BY ContentsNext DEF ContentsKnown
<1>4. CASE n = 0
  <2>1. got' = << >>
    BY <1>4 DEF Read
  <2>2. QED
    BY <1>1, <1>4, <2>1, NothingMoves
<1>5. CASE n > 0
  <2>1. got' = SubSeq(Contents, 1, n)
    <3>1. \A i \in 1 .. n : Cell(i) = rp + i - 1 /\ Contents[i] = buf[rp + i - 1]
      BY <1>1, <1>2 DEF Cell
    <3>2. SubSeq(Contents, 1, n) = [i \in 1 .. n |-> Contents[i]]
      BY <1>1, <1>2
    <3>3. QED
      BY <3>1, <3>2 DEF Read
  <2>2. Contents' = SubSeq(Contents, n + 1, Len(Contents))
    <3> DEFINE rest == SubSeq(Contents, n + 1, Len(Contents))
    <3>1. \A i \in n + 1 .. used : Contents[i] \in Nat
      BY <1>1, <1>2, ElementOfSeq
    <3>2. /\ rest \in Seq(Nat) /\ Len(rest) = IF n + 1 <= used THEN used - (n + 1) + 1 ELSE 0
          /\ \A i \in 1 .. used - (n + 1) + 1 : rest[i] = Contents[n + 1 + i - 1]
      BY <1>1, <1>2, <3>1, SubSeqProperties
    <3> HIDE DEF rest
    <3>3. ASSUME NEW i \in 1 .. used - n
          PROVE  Contents'[i] = rest[i]
      <4>1. Cell(i)' = Cell(n + i)
        BY <1>1 DEF Cell
      <4>2. n + i \in 1 .. used /\ n + 1 + i - 1 = n + i /\ i \in 1 .. used - (n + 1) + 1
        BY <1>1
      <4>3. Contents'[i] = buf[Cell(n + i)] /\ Contents[n + i] = buf[Cell(n + i)]
        BY <1>2, <1>3, <4>1, <4>2
      <4>4. rest[i] = Contents[n + i]
        BY <3>2, <4>2
      <4>5. QED
        BY <4>3, <4>4
    <3>4. Len(rest) = used - n
      BY <1>1, <3>2
    <3>5. Contents' = rest
      BY <1>3, <3>2, <3>3, <3>4, SeqEqual
    <3>6. QED
      BY <3>5 DEF rest
  <2>3. n \in 1 .. Len(Contents)
    BY <1>1, <1>2, <1>5
  <2>4. QED
    BY <2>1, <2>2, <2>3, Zenon DEF Ring!Take
<1>6. QED
  BY <1>4, <1>5

\* Every step of the ring is one of the queue, or none.
LEMMA StepQueue ==
    RingInv /\ RingInv' /\ DataInv /\ DataInv' /\ [Next]_vars => [Ring!Next]_(Ring!vars)
<1> SUFFICES ASSUME RingInv, RingInv', DataInv, DataInv', [Next]_vars
             PROVE  [Ring!Next]_(Ring!vars)
  OBVIOUS
<1> USE SizeAssumption
<1>t. /\ used \in Nat /\ ret_len \in Nat /\ done \in Nat /\ written \in Nat /\ todo \in Nat
      /\ PacketLen \in Nat
  BY PacketsAssumption DEF RingInv, TypeOK
<1>1. CASE \/ PacketArrives \/ WriterDown \/ RingFull \/ WriterUp \/ WakeUp \/ WriteWrap
           \/ \E r \in Readers : \/ Call(r) \/ ReaderDown(r) \/ FoundEmpty(r) \/ Register(r)
                                 \/ Check(r) \/ IsWoken(r) \/ ReadWrap(r)
                                 \/ ReadFails(r) \/ Interrupted(r)
  <2>1. /\ UNCHANGED << buf, used >> /\ got' = << >>
        /\ rp' = rp \/ (rp = Size /\ rp' = 0)
    BY <1>1, Zenon DEF PacketArrives, WriterDown, RingFull, WriterUp, WakeUp, WriteWrap, Call,
         ReaderDown, FoundEmpty, Register, Check, IsWoken, ReadWrap, WrapRead, ReadFails,
         Interrupted, ring
  <2>2. Ring!Rest
    BY <2>1, NothingMoves
  <2>3. QED
    BY <2>2 DEF Ring!Next
<1>2. CASE WriteFirst
  <2>1. /\ wpc = "copy" /\ wpc' = "wrap" /\ buf' = Stored(written', 0) /\ got' = << >>
        /\ UNCHANGED << rp, ret_len, done >>
    BY <1>2, Zenon DEF WriteFirst, ring, writer
  <2>2. PICK n \in Nat :
             /\ used' = used + n /\ wp + n <= Size /\ used + n <= Size - 1
             /\ todo' \in Nat /\ written' = n
    BY <1>2, FirstCopy
  <2>3. ret_len + done + 0 + n <= PacketLen
    <3>1. ret_len' + done' + written' + todo' <= PacketLen
      BY <2>1 DEF DataInv
    <3>2. ret_len' = ret_len /\ done' = done
      BY <2>1
    <3>3. ret_len + done + n + todo' <= PacketLen /\ todo' \in Nat
      BY <2>2, <3>1, <3>2
    <3>4. \A a, b, c, d, l \in Nat : a + b + c + d <= l => a + b + 0 + c <= l
      OBVIOUS
    <3>5. QED
      BY <1>t, <3>3, <3>4
  <2>4. rp \in 0 .. Size - 1 /\ wp \in 0 .. Size - 1
    BY <2>1, Inside
  <2>5. Ring!Put \/ Ring!Rest
    BY <2>1, <2>2, <2>3, <2>4, CopyPuts
  <2>6. QED
    BY <2>5 DEF Ring!Next
<1>3. CASE WriteSecond
  <2>1. /\ wpc = "second" /\ buf' = Stored(SecondPart, written) /\ got' = << >>
        /\ UNCHANGED << rp, ret_len, done >>
    BY <1>3, Zenon DEF WriteSecond, ring, writer
  <2>2. PICK n \in Nat :
             /\ SecondPart = n /\ used' = used + n /\ wp + n < Size /\ used + n <= Size - 1
    BY <1>3, SecondCopy
  <2>3. rp \in 0 .. Size - 1 /\ wp \in 0 .. Size - 1
    <3>1. wp \in 0 .. Size /\ wp # Size
      BY <2>1 DEF RingInv, TypeOK, CopyInv
    <3>2. QED
      BY <2>1, <3>1, Inside
  <2>4. n <= todo
    BY <1>t, <2>2, <2>3 DEF SecondPart, Lesser
  <2>5. ret_len + done + written + n <= PacketLen
    BY <1>t, <2>1, <2>4 DEF DataInv
  <2>6. Ring!Put \/ Ring!Rest
    BY <1>t, <2>1, <2>2, <2>3, <2>5, CopyPuts
  <2>7. QED
    BY <2>6 DEF Ring!Next
<1>4. CASE \E r \in Readers : ReadFirst(r) \/ ReadSecond(r)
  <2>1. PICK r \in Readers : ReadFirst(r) \/ ReadSecond(r)
    BY <1>4
  <2>2. rpc[r] \in {"test", "second"} /\ buf' = buf
    BY <2>1, Zenon DEF ReadFirst, ReadSecond
  <2>3. rp \in 0 .. Size - 1
    BY <2>2, Inside
  <2>4. \E n \in Nat : /\ rp' = rp + n /\ used' = used - n /\ rp + n <= Size /\ n <= used
                       /\ got' = Read(n)
    BY <2>1, ReaderCopy
  <2>5. Ring!Take \/ Ring!Rest
    BY <2>2, <2>3, <2>4, CopyTakes
  <2>6. QED
    BY <2>5 DEF Ring!Next
<1>5. CASE UNCHANGED vars
  <2>1. UNCHANGED << buf, rp, used, got >>
    BY <1>5 DEF vars, ring
  <2>2. UNCHANGED << Contents, got >>
    BY <2>1 DEF Contents
  <2>3. QED
    BY <2>2 DEF Ring!vars
<1>6. QED
  BY <1>1, <1>2, <1>3, <1>4, <1>5 DEF Next, Writer, Reader

LEMMA InitQueue == Init => Ring!Init
<1> SUFFICES ASSUME Init
             PROVE  Contents = << >> /\ got = << >>
  BY DEF Ring!Init
<1>1. used = 0 /\ got = << >>
  BY DEF Init
<1>2. QED
  BY <1>1 DEF Contents

\* The ring buffer between esp_if_rx_work and the user processes implements a bounded
\* first-in first-out queue of bytes, for every size of the ring and of the packets, every
\* number of packets and any readers, interrupted or failing as they may be.
THEOREM RingImplementsQueue == Spec => RingIsQueue
<1>1. Init => RingInv /\ DataInv /\ Ring!Init
  BY InitRing, InitData, InitQueue
<1>2. RingInv /\ DataInv /\ [Next]_vars => RingInv' /\ DataInv'
  BY StepRing, StepData
<1>3. RingInv /\ RingInv' /\ DataInv /\ DataInv' /\ [Next]_vars => [Ring!Next]_(Ring!vars)
  BY StepQueue
<1>4. QED
  BY <1>1, <1>2, <1>3, PTL DEF Spec, RingIsQueue, Ring!Spec
=============================================================================
