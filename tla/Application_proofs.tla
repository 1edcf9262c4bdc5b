-------------------------- MODULE Application_proofs --------------------------
(***************************************************************************)
(* Proofs about the parts of the application that MCApplication puts together, each    *)
(* for every value of its constants.  A theorem about a part alone is stated of its   *)
(* specification; the one that follows it carries it over to the composition.         *)
(***************************************************************************)
EXTENDS MCApplication, Sequences, FiniteSets, FiniteSetTheorems, WellFoundedInduction, SequenceTheorems, TLAPS

(***************************************************************************)
(* Update.  As long as no update began while another one was there, there is one open  *)
(* update at most, it can still be ended, and none is left when the partition is set to *)
(* boot: nobody can write then.                                                *)
(***************************************************************************)

\* UpdateTypes, as far as the argument needs them: handles are numbers that were given.
UpdateTypes ==
    /\ handles \in Nat /\ update_handle \in 0 .. handles
    /\ uploadTask \in {"none", "end", "boot", "restart"}
    /\ uploads \in Nat /\ task_url \in Urls \cup {"none"}
    /\ downloads \subseteq [by : Nat, url : Urls \cup {"none"}, handle : 0 .. handles]
    /\ DOMAIN openUpdates \subseteq 1 .. handles

\* One update is open at most.
OneOpen == \A a, b \in DOMAIN openUpdates : a = b

\* It is the one of the upload or of a download that runs.
Owned == DOMAIN openUpdates \subseteq {update_handle} \cup { d.handle : d \in downloads }

\* Once the upload has ended well, or the partition is set to boot, the image is whole
\* and no update is open.
Sealed == boot \/ uploadTask \in {"boot", "restart"} => Upd!Whole /\ DOMAIN openUpdates = {}

UpdateInv == UpdateTypes /\ (~overlap => OneOpen /\ Owned /\ Sealed)

-----------------------------------------------------------------------------
\* The initial state.
LEMMA InitUpdate == Upd!Init => UpdateInv
<1> SUFFICES ASSUME Upd!Init
             PROVE  UpdateInv
  OBVIOUS
<1>1. DOMAIN openUpdates = {}
  BY DEF Upd!Init
<1>2. UpdateTypes
  BY <1>1 DEF Upd!Init, UpdateTypes
<1>3. QED
  BY <1>1, <1>2 DEF Upd!Init, UpdateInv, OneOpen, Owned, Sealed

\* Opening an update, and what is open afterwards.
LEMMA Opened ==
    ASSUME NEW h, NEW place
    PROVE  DOMAIN Upd!WithHandle(h, place) = DOMAIN openUpdates \cup {h}
  BY DEF Upd!WithHandle

\* Ending one.
LEMMA Ended ==
    ASSUME NEW h
    PROVE  DOMAIN Upd!Without(h) = DOMAIN openUpdates \ {h}
  BY DEF Upd!Without

\* A restart keeps the image and closes every update.
LEMMA RestartKeeps ==
    ASSUME UpdateInv, NEW b, Upd!RestartsWith(b), UNCHANGED overlap,
           ~overlap /\ b => Upd!Whole
    PROVE  UpdateInv'
<1>1. /\ handles' = handles /\ update_handle' = 0 /\ uploadTask' = "none" /\ boot' = b
      /\ downloads' = {} /\ openUpdates' = << >> /\ flash' = flash /\ overlap' = overlap
      /\ uploads' = uploads /\ task_url' = "none"
  BY DEF Upd!RestartsWith
<1>2. DOMAIN openUpdates' = {}
  BY <1>1
<1>3. Upd!Whole' <=> Upd!Whole
  BY <1>1 DEF Upd!Whole, Upd!Pieces
<1>4. UpdateTypes'
  BY <1>1, <1>2 DEF UpdateInv, UpdateTypes
<1>5. QED
  BY <1>1, <1>2, <1>3, <1>4 DEF UpdateInv, OneOpen, Owned, Sealed

\* A piece that is written leaves the same updates open; there is one, so the
\* partition is not set to boot.
LEMMA WriteKeeps ==
    ASSUME UpdateInv, NEW h, NEW piece, Upd!Fits(h), Upd!Write(h, piece),
           uploadTask' \in {uploadTask, "end"},
           UNCHANGED << handles, update_handle, downloads, boot, overlap, uploads, task_url >>
    PROVE  UpdateInv'
<1>1. h \in DOMAIN openUpdates
  BY DEF Upd!Fits, Upd!IsOpen
<1>2. DOMAIN openUpdates' = DOMAIN openUpdates
  <2>1. DOMAIN Upd!WithHandle(h, openUpdates[h] + 1) = DOMAIN openUpdates \cup {h}
    BY Opened
  <2>2. QED
    BY <1>1, <2>1 DEF Upd!Write
<1>3. UpdateTypes'
  BY <1>2 DEF UpdateInv, UpdateTypes
<1>4. ASSUME ~overlap
      PROVE  ~boot /\ uploadTask \notin {"boot", "restart"}
  BY <1>1, <1>4 DEF UpdateInv, Sealed
<1>5. QED
  BY <1>2, <1>3, <1>4 DEF UpdateInv, UpdateTypes, OneOpen, Owned, Sealed

\* A new update, begun by the upload or by a download.
LEMMA BeginKeeps ==
    ASSUME UpdateInv, NEW place,
           handles' = handles + 1, openUpdates' = Upd!WithHandle(handles + 1, place),
           overlap' = (overlap \/ Upd!Busy),
           UNCHANGED << uploadTask, boot >>,
           update_handle' \in {update_handle, handles + 1},
           uploads' \in Nat, UNCHANGED task_url,
           downloads' \subseteq [by : Nat, url : Urls \cup {"none"}, handle : 0 .. handles + 1],
           \/ update_handle' = handles + 1
           \/ \E d \in downloads' : d.handle = handles + 1
    PROVE  UpdateInv'
<1>1. DOMAIN openUpdates' = DOMAIN openUpdates \cup {handles + 1}
  BY Opened
<1>2. handles' \in Nat /\ update_handle' \in 0 .. handles' /\ DOMAIN openUpdates' \subseteq 1 .. handles'
  BY <1>1 DEF UpdateInv, UpdateTypes
<1>3. UpdateTypes'
  BY <1>2 DEF UpdateInv, UpdateTypes
<1>4. ASSUME ~overlap'
      PROVE  DOMAIN openUpdates' = {handles + 1} /\ ~boot' /\ uploadTask' = "none"
  BY <1>1, <1>4 DEF Upd!Busy
<1>5. QED
  BY <1>3, <1>4 DEF UpdateInv, OneOpen, Owned, Sealed

-----------------------------------------------------------------------------
\* Every step keeps the invariant.
LEMMA NextUpdate == UpdateInv /\ [Upd!Next]_updateVars => UpdateInv'
<1> SUFFICES ASSUME UpdateInv, [Upd!Next]_updateVars
             PROVE  UpdateInv'
  OBVIOUS
<1>1. ASSUME NEW at, Upd!Post(at)
      PROVE  UpdateInv'
  BY <1>1 DEF Upd!Post, UpdateInv, UpdateTypes, OneOpen, Owned, Sealed, Upd!Whole, Upd!Pieces, Upd!Uploaded
<1>2. CASE Upd!FirstPiece
  <2>1. downloads' \subseteq [by : Nat, url : Urls \cup {"none"}, handle : 0 .. handles + 1]
    BY <1>2 DEF Upd!FirstPiece, UpdateInv, UpdateTypes
  <2>2. uploads' \in Nat
    BY <1>2 DEF Upd!FirstPiece, UpdateInv, UpdateTypes
  <2>3. QED
    BY <1>2, <2>1, <2>2, BeginKeeps DEF Upd!FirstPiece
<1>3. CASE Upd!NextPiece
  BY <1>3, WriteKeeps DEF Upd!NextPiece
<1>4. CASE Upd!PieceFails
  <2>1. /\ uploadTask' = uploadTask /\ boot' = boot /\ downloads' = downloads
        /\ uploads' = uploads /\ task_url' = task_url
    BY <1>4 DEF Upd!PieceFails
  <2>2. CASE /\ openUpdates' = Upd!AfterError \/ openUpdates' = openUpdates
             /\ UNCHANGED << flash, handles, update_handle, overlap >>
    <3>1. DOMAIN openUpdates' \subseteq DOMAIN openUpdates
      BY <2>2, Ended DEF Upd!AfterError
    <3>2. Upd!Whole' <=> Upd!Whole
      BY <2>2 DEF Upd!Whole, Upd!Pieces
    <3>3. QED
      BY <2>1, <2>2, <3>1, <3>2 DEF UpdateInv, UpdateTypes, OneOpen, Owned, Sealed
  <2>3. CASE /\ handles' = handles + 1 /\ update_handle' = handles + 1
             /\ overlap' = (overlap \/ Upd!Busy) /\ openUpdates' = openUpdates
    <3>1. UpdateTypes'
      <4>1. handles + 1 \in Nat /\ DOMAIN openUpdates' \subseteq 1 .. handles + 1
        BY <2>3 DEF UpdateInv, UpdateTypes
      <4>2. downloads' \subseteq [by : Nat, url : Urls \cup {"none"}, handle : 0 .. handles + 1]
        BY <2>1 DEF UpdateInv, UpdateTypes
      <4>3. QED
        BY <2>1, <2>3, <4>1, <4>2 DEF UpdateInv, UpdateTypes
    <3>2. ~overlap' => DOMAIN openUpdates' = {} /\ ~boot' /\ uploadTask' = "none"
      BY <2>1, <2>3 DEF Upd!Busy
    <3>3. QED
      BY <3>1, <3>2 DEF UpdateInv, OneOpen, Owned, Sealed
  <2>4. QED
    BY <1>4, <2>2, <2>3 DEF Upd!PieceFails
<1>5. CASE Upd!UploadEnds
  <2>1. /\ uploadTask = "end" /\ update_handle \in DOMAIN openUpdates /\ Upd!Whole
        /\ DOMAIN openUpdates' = DOMAIN openUpdates \ {update_handle}
    BY <1>5, Ended DEF Upd!UploadEnds, Upd!EndsSound, Upd!IsOpen
  <2>2. /\ handles' = handles /\ update_handle' = update_handle /\ uploadTask' = "boot"
        /\ boot' = boot /\ overlap' = overlap /\ downloads' = downloads /\ flash' = flash
        /\ uploads' = uploads /\ task_url' = task_url
    BY <1>5 DEF Upd!UploadEnds
  <2>3. Upd!Whole'
    BY <2>1, <2>2 DEF Upd!Whole, Upd!Pieces
  <2>4. ~overlap => DOMAIN openUpdates' = {}
    BY <2>1 DEF UpdateInv, OneOpen
  <2>5. QED
    BY <2>1, <2>2, <2>3, <2>4 DEF UpdateInv, UpdateTypes, OneOpen, Owned, Sealed
<1>6. CASE Upd!UploadFails
  BY <1>6, RestartKeeps DEF Upd!UploadFails, UpdateInv, UpdateTypes, Sealed
<1>7. CASE Upd!SetBoot
  BY <1>7 DEF Upd!SetBoot, UpdateInv, UpdateTypes, OneOpen, Owned, Sealed, Upd!Whole, Upd!Pieces
<1>8. CASE Upd!Restarts
  BY <1>8, RestartKeeps DEF Upd!Restarts, UpdateInv, UpdateTypes, Sealed
<1>9. CASE Upd!Reset
  BY <1>9, RestartKeeps DEF Upd!Reset, UpdateInv, UpdateTypes, Sealed
<1>10. ASSUME NEW url \in Urls, Upd!AskDownload(url)
       PROVE  UpdateInv'
  <2>1. /\ downloads' = downloads \cup {[by |-> uploads + 1, url |-> "none", handle |-> 0]}
        /\ uploads' = uploads + 1 /\ task_url' = url
    BY <1>10 DEF Upd!AskDownload
  <2>2. /\ handles' = handles /\ update_handle' = update_handle /\ uploadTask' = uploadTask
        /\ boot' = boot /\ overlap' = overlap /\ openUpdates' = openUpdates /\ flash' = flash
    BY <1>10 DEF Upd!AskDownload
  <2>3. Upd!Whole' <=> Upd!Whole
    BY <2>2 DEF Upd!Whole, Upd!Pieces
  <2>4. UpdateTypes'
    BY <2>1, <2>2 DEF UpdateInv, UpdateTypes
  <2>5. QED
    BY <2>1, <2>2, <2>3, <2>4 DEF UpdateInv, OneOpen, Owned, Sealed
<1>11. ASSUME NEW d \in downloads, Upd!DownloadBegins(d)
       PROVE  UpdateInv'
  <2> DEFINE e == [d EXCEPT !.url = task_url, !.handle = handles + 1]
  <2>1. downloads' = (downloads \ {d}) \cup {e}
    BY <1>11 DEF Upd!DownloadBegins
  <2>2. e \in [by : Nat, url : Urls \cup {"none"}, handle : 0 .. handles + 1] /\ e.handle = handles + 1
    <3>1. /\ d \in [by : Nat, url : Urls \cup {"none"}, handle : 0 .. handles]
          /\ task_url \in Urls \cup {"none"} /\ handles \in Nat
      BY DEF UpdateInv, UpdateTypes
    <3>2. d \in [by : Nat, url : Urls \cup {"none"}, handle : 0 .. handles + 1]
      BY <3>1
    <3>3. [d EXCEPT !.url = task_url] \in [by : Nat, url : Urls \cup {"none"}, handle : 0 .. handles + 1]
      BY <3>1, <3>2
    <3>4. e = [[d EXCEPT !.url = task_url] EXCEPT !.handle = handles + 1]
      BY Zenon
    <3>5. handles + 1 \in 0 .. handles + 1
      BY <3>1
    <3>6. QED
      BY <3>3, <3>4, <3>5
  <2>3. downloads' \subseteq [by : Nat, url : Urls \cup {"none"}, handle : 0 .. handles + 1]
    <3>1. downloads \subseteq [by : Nat, url : Urls \cup {"none"}, handle : 0 .. handles + 1]
      BY DEF UpdateInv, UpdateTypes
    <3>2. QED
      BY <2>1, <2>2, <3>1
  <2>4. \E x \in downloads' : x.handle = handles + 1
    BY <2>1, <2>2
  <2>5. uploads' \in Nat
    BY <1>11 DEF Upd!DownloadBegins, UpdateInv, UpdateTypes
  <2>6. QED
    BY <1>11, <2>3, <2>4, <2>5, BeginKeeps DEF Upd!DownloadBegins
<1>12. ASSUME NEW d \in downloads, Upd!DownloadsPiece(d)
       PROVE  UpdateInv'
  BY <1>12, WriteKeeps DEF Upd!DownloadsPiece
<1>13. ASSUME NEW d \in downloads, Upd!DownloadEnds(d)
       PROVE  UpdateInv'
  BY <1>13, RestartKeeps DEF Upd!DownloadEnds, UpdateInv, UpdateTypes, Sealed
<1>14. CASE UNCHANGED updateVars
  BY <1>14 DEF updateVars, UpdateInv, UpdateTypes, OneOpen, Owned, Sealed, Upd!Whole, Upd!Pieces
<1>15. QED
  BY <1>1, <1>2, <1>3, <1>4, <1>5, <1>6, <1>7, <1>8, <1>9, <1>10, <1>11, <1>12, <1>13, <1>14
     DEF Upd!Next, Upd!Upload, Upd!UploadTask, Upd!Download

LEMMA UpdCardinality == ASSUME NEW S PROVE Upd!Cardinality(S) = Cardinality(S)
  BY Zenon DEF Upd!Cardinality, Cardinality

\* The invariant gives the property of the runs.
LEMMA UpdateImplies == UpdateInv => Upd!BootsWhole
<1> SUFFICES ASSUME UpdateInv, ~overlap
             PROVE  /\ boot => Upd!Whole
                    /\ DOMAIN openUpdates \subseteq {update_handle} \cup { d.handle : d \in downloads }
                    /\ Cardinality(DOMAIN openUpdates) <= 1
  BY UpdCardinality DEF Upd!BootsWhole
<1>1. (boot => Upd!Whole) /\ DOMAIN openUpdates \subseteq {update_handle} \cup { d.handle : d \in downloads }
  BY DEF UpdateInv, Owned, Sealed
<1>2. CASE DOMAIN openUpdates = {}
  BY <1>1, <1>2, FS_EmptySet
<1>3. CASE DOMAIN openUpdates # {}
  <2>1. PICK h : DOMAIN openUpdates = {h}
    BY <1>3 DEF UpdateInv, OneOpen
  <2>2. Cardinality({h}) = 1
    BY FS_Singleton
  <2>3. QED
    BY <1>1, <2>1, <2>2
<1>4. QED
  BY <1>2, <1>3

\* Whatever chunks come in which order and wherever an update fails
\* (ota_update_post_handler, task_ota_upload, t3ch_ota_download): unless an update begins
\* while another is on its way, what is set to boot is one whole image, and an open
\* update can be ended.
THEOREM UpdatesBootWhole == Upd!Spec => []Upd!BootsWhole
<1>1. UpdateInv /\ [Upd!Next]_(Upd!updateVars) => UpdateInv'
  BY NextUpdate DEF updateVars, Upd!updateVars
<1>2. QED
  BY InitUpdate, <1>1, UpdateImplies, PTL DEF Upd!Spec

\* The same of the composition.
THEOREM ApplicationBootsWhole == MCSpec => []BootsWhole
<1>1. MCInit => UpdateInv
  BY InitUpdate DEF MCInit
<1>2. [MCNext]_<< part, timerVars, wsVars, settingsVars, updateVars >> => [Upd!Next]_updateVars
  BY DEF MCNext
<1>3. QED
  BY <1>1, <1>2, NextUpdate, UpdateImplies, PTL DEF MCSpec, BootsWhole

\* A nonempty set of numbers has a least one.
LEMMA Smallest == ASSUME NEW S \in SUBSET Nat, S # {} PROVE \E n \in S : \A m \in S : n <= m
<1> DEFINE Upto(n) == { k \in S : k <= n }
           T == { Upto(n) : n \in S }
<1>1. T \subseteq FiniteSubsetsOf(Nat) /\ T # {}
  <2>1. ASSUME NEW n \in S
        PROVE  IsFiniteSet(Upto(n)) /\ Upto(n) \subseteq Nat
    <3>1. n \in Nat /\ Upto(n) \in SUBSET Nat /\ \A s \in Upto(n) : s <= n
      OBVIOUS
    <3>. HIDE DEF Upto
    <3>2. QED
      BY <3>1, FS_BoundedSetOfNaturals
  <2>2. QED
    BY <2>1 DEF FiniteSubsetsOf
<1>2. PICK x \in T : \A y \in T : ~ (<< y, x >> \in StrictSubsetOrdering(Nat))
  <2>. HIDE DEF T
  <2>1. QED
    BY <1>1, FS_StrictSubsetOrderingWellFounded, WFMin, Zenon
<1>3. PICK n \in S : x = Upto(n)
  OBVIOUS
<1>4. ASSUME NEW m \in S, m < n
      PROVE  FALSE
  <2>0. m \in Nat /\ n \in Nat
    OBVIOUS
  <2>7. Upto(m) \in T
    BY Zenon
  <2>8. ASSUME NEW k \in S, k <= m
        PROVE  k <= n
    BY <1>4, <2>0, <2>8
  <2>1. Upto(m) \subseteq Upto(n) /\ n \in Upto(n) /\ n \notin Upto(m)
    <3>1. n <= n /\ ~ (n <= m)
      BY <1>4, <2>0
    <3>2. QED
      BY <2>8, <3>1, Zenon
  <2>2. Upto(m) \in SUBSET Nat /\ x \in SUBSET Nat /\ Upto(m) # x
    BY <1>3, <2>1
  <2>3. << Upto(m), x >> \in StrictSubsetOrdering(Nat)
    BY <1>3, <2>1, <2>2 DEF StrictSubsetOrdering
  <2>4. QED
    BY <1>2, <2>7, <2>3, Zenon
<1>5. QED BY <1>4

(***************************************************************************)
(* WsUsers.  The list: the users before wua_pos are the members, of which there are     *)
(* no two alike, and one place is always left.                                   *)
(***************************************************************************)

\* What a slot holds, and the two tasks.
User == [id : Fds \cup {None}, age : Int, loops : SUBSET {"info", "log"}]
SrvStates == [pc : {"idle", "wait", "send"}, i : Int]
WtStates == [pc : {"check", "info", "infosend", "log", "logsend"}, i : Int]

\* Both tasks may look at a slot beyond the list.
WsTypes ==
    /\ users \in [Wss!Places -> User]
    /\ sem \in [Wss!Places -> {"none", "free", "taken"}]
    /\ wua_pos \in Int
    /\ srv \in SrvStates
    /\ wt \in WtStates

\* The users before wua_pos are the members, in their order.
MembersListed ==
    clean =>
        /\ members \in Seq(Fds) /\ wua_pos = Len(members) /\ Len(members) <= WUA_MAX - 1
        /\ \A m, n \in 1 .. Len(members) : members[m] = members[n] => m = n
        /\ \A n \in 1 .. Len(members) : users[n - 1].id = members[n]

ListInv == WsTypes /\ MembersListed

LEMMA WsConstants == WUA_MAX \in Nat /\ WUA_MAX >= 1 /\ None \notin Fds
BY ApplicationAssumption DEF Wss!WsAssumption

LEMMA ListInit == Wss!Init => ListInv
<1> SUFFICES ASSUME Wss!Init
             PROVE  ListInv
  OBVIOUS
<1>1. << >> \in Seq(Fds) /\ Len(<< >>) = 0
  OBVIOUS
<1>2. QED
  BY <1>1, WsConstants DEF Wss!Init, ListInv, WsTypes, MembersListed, Wss!Nobody, Wss!Places, User, SrvStates, WtStates,
                         Wss!SrvIdle, Wss!WtStart

\* The steps that leave the list and the membership alone.
LEMMA ListKept ==
    ASSUME ListInv, UNCHANGED << wua_pos, members, clean >>, WsTypes',
           \A p \in Wss!Places : users'[p].id = users[p].id
    PROVE  ListInv'
<1>1. WUA_MAX \in Nat
  BY WsConstants
<1>2. clean => \A n \in 1 .. Len(members) : n - 1 \in Wss!Places
  BY <1>1 DEF ListInv, MembersListed, Wss!Places
<1>3. QED
  BY <1>2 DEF ListInv, MembersListed

\* wua_geti finds the user, or there is none.
LEMMA WuaGeti ==
    ASSUME NEW f, wua_pos \in Int
    PROVE  /\ Wss!wua_geti(f) \in Int
           /\ Wss!wua_geti(f) < 0 => \A p \in Wss!Places : p < wua_pos => users[p].id # f
           /\ Wss!wua_geti(f) >= 0 => /\ Wss!wua_geti(f) \in Wss!Places
                                      /\ Wss!wua_geti(f) < wua_pos
                                      /\ users[Wss!wua_geti(f)].id = f
<1> DEFINE found == { p \in Wss!Places : p < wua_pos /\ users[p].id = f }
<1>1. CASE found = {}
  <2>1. Wss!wua_geti(f) = -1
    BY <1>1 DEF Wss!wua_geti
  <2>2. QED
    BY <1>1, <2>1
<1>2. CASE found # {}
  <2>1. found \in SUBSET Nat
    BY WsConstants DEF Wss!Places
  <2> HIDE DEF found
  <2>2. PICK p \in found : \A q \in found : p <= q
    BY <1>2, <2>1, Smallest
  <2> USE DEF found
  <2>3. \A q \in Wss!Places : q < p => users[q].id # f
    BY <2>1, <2>2, WsConstants DEF Wss!Places
  <2>4. \E q \in Wss!Places : /\ q < wua_pos /\ users[q].id = f
                              /\ \A r \in Wss!Places : r < q => users[r].id # f
    BY <2>2, <2>3, Zenon
  <2>5. Wss!wua_geti(f) = CHOOSE q \in Wss!Places :
                              /\ q < wua_pos /\ users[q].id = f
                              /\ \A r \in Wss!Places : r < q => users[r].id # f
    BY <2>2, Zenon DEF Wss!wua_geti
  <2>6. Wss!wua_geti(f) \in found
    BY <2>4, <2>5, Zenon
  <2>7. Wss!wua_geti(f) \in Nat
    BY <2>1, <2>6
  <2>8. QED
    BY <2>6, <2>7
<1>3. QED
  BY <1>1, <1>2

\* No two members are alike, so the one that leaves is known by its place.
LEMMA WithoutOne ==
    ASSUME ListInv, clean, NEW n \in 1 .. Len(members)
    PROVE  Wss!Without(members[n])
             = [k \in 1 .. Len(members) - 1 |-> members[IF k < n THEN k ELSE k + 1]]
<1> DEFINE m == CHOOSE m \in 1 .. Len(members) : members[m] = members[n]
<1>1. m \in 1 .. Len(members) /\ members[m] = members[n]
  OBVIOUS
<1>2. m = n
  BY <1>1 DEF ListInv, MembersListed
<1>3. QED
  BY <1>2 DEF Wss!Without

\* The deletion of one of the last two users keeps the list exact.
LEMMA DelKeepsList ==
    ASSUME ListInv, NEW pos, Wss!wua_del(pos)
    PROVE  MembersListed'
<1> SUFFICES ASSUME clean'
             PROVE  MembersListed'
  BY DEF MembersListed
<1>1. clean /\ pos \in {wua_pos - 2, wua_pos - 1} /\ pos >= 0 /\ wua_pos \in Int
  <2>1. wua_pos \in Int
    BY DEF ListInv, WsTypes
  <2>2. clean /\ pos \in wua_pos - 2 .. wua_pos - 1 /\ pos >= 0
    BY Zenon DEF Wss!wua_del
  <2>3. QED
    BY <2>1, <2>2
<1> DEFINE n == pos + 1
           len == Len(members)
<1>2. /\ WUA_MAX \in Nat /\ members \in Seq(Fds) /\ len \in Nat /\ wua_pos = len /\ len <= WUA_MAX - 1
      /\ \A j, k \in 1 .. len : members[j] = members[k] => j = k
      /\ \A k \in 1 .. len : users[k - 1].id = members[k] /\ members[k] \in Fds
  BY <1>1, WsConstants DEF ListInv, MembersListed
<1>3. n \in 1 .. len /\ n \in {len - 1, len} /\ pos \in Wss!Places /\ pos + 1 < WUA_MAX
      /\ pos + 1 \in Wss!Places /\ n - 1 = pos
  BY <1>1, <1>2 DEF Wss!Places
<1>4. members' = [k \in 1 .. len - 1 |-> members[IF k < n THEN k ELSE k + 1]]
  <2>1. users[pos].id = members[n]
    BY <1>2, <1>3
  <2>2. members' = Wss!Without(users[pos].id)
    BY <1>3 DEF Wss!wua_del
  <2>3. QED
    BY <1>1, <1>3, <2>1, <2>2, WithoutOne
<1>5. users' = [users EXCEPT ![pos] = users[pos + 1]] /\ wua_pos' = len - 1
  BY <1>2, <1>3 DEF Wss!wua_del, Wss!UsersAfterDel
<1>6. /\ members' \in Seq(Fds) /\ Len(members') = len - 1
      /\ \A k \in 1 .. len - 1 : members'[k] = members[IF k < n THEN k ELSE k + 1]
  <2>1. len - 1 \in Nat
    BY <1>2, <1>3
  <2>2. \A k \in 1 .. len - 1 : members[IF k < n THEN k ELSE k + 1] \in Fds
    BY <1>2, <1>3
  <2>. HIDE DEF len, n
  <2>3. QED
    BY <1>4, <2>1, <2>2
<1>7. \A k \in 1 .. len - 1 : users'[k - 1].id = members'[k]
  <2> SUFFICES ASSUME NEW k \in 1 .. len - 1
               PROVE  users'[k - 1].id = members'[k]
    OBVIOUS
  <2>1. k - 1 \in Wss!Places /\ k \in 1 .. len /\ k + 1 \in 1 .. len
    BY <1>2 DEF Wss!Places
  <2>0. /\ users'[k - 1] = IF k - 1 = pos THEN users[pos + 1] ELSE users[k - 1]
        /\ members'[k] = members[IF k < n THEN k ELSE k + 1]
        /\ k \in Int /\ pos \in Int
    <3>1. users \in [Wss!Places -> User]
      BY DEF ListInv, WsTypes
    <3>2. pos \in Int
      BY <1>1, <1>3 DEF Wss!Places
    <3>. HIDE DEF n, len
    <3>3. QED
      BY <1>5, <1>6, <2>1, <3>1, <3>2
  <2>2. CASE k = n
    <3>1. users'[k - 1] = users[k] /\ members'[k] = members[k + 1]
      BY <1>3, <2>0, <2>2
    <3>2. users[(k + 1) - 1].id = members[k + 1]
      BY <1>2, <2>1, Zenon
    <3>3. (k + 1) - 1 = k
      OBVIOUS
    <3>4. QED
      BY <3>1, <3>2, <3>3
  <2>3. CASE k # n
    <3>1. k < n
      BY <1>2, <1>3, <2>3
    <3>2. users'[k - 1] = users[k - 1] /\ members'[k] = members[k]
      BY <1>3, <2>0, <2>3, <3>1
    <3>3. QED
      BY <1>2, <2>1, <3>2
  <2>4. QED
    BY <2>2, <2>3
<1>8. \A j, k \in 1 .. len - 1 : members'[j] = members'[k] => j = k
  <2> SUFFICES ASSUME NEW j \in 1 .. len - 1, NEW k \in 1 .. len - 1, members'[j] = members'[k]
               PROVE  j = k
    OBVIOUS
  <2> DEFINE at(x) == IF x < n THEN x ELSE x + 1
  <2>1. at(j) \in 1 .. len /\ at(k) \in 1 .. len /\ members[at(j)] = members[at(k)]
    BY <1>2, <1>3, <1>6
  <2>2. at(j) = at(k)
    BY <1>2, <2>1
  <2>3. QED
    BY <1>3, <2>2
<1>9. QED
  BY <1>2, <1>5, <1>6, <1>7, <1>8 DEF MembersListed

\* Every step of the program, as far as the list and the membership go.
LEMMA ListStep == ListInv /\ [Wss!Next]_wsVars => ListInv'
<1> SUFFICES ASSUME ListInv, [Wss!Next]_wsVars
             PROVE  ListInv'
  OBVIOUS
<1>0. WsTypes /\ wua_pos \in Int
  BY DEF ListInv, WsTypes
<1> DEFINE Same == UNCHANGED << wua_pos, members, clean >>
           SameIds == \A p \in Wss!Places : users'[p].id = users[p].id
<1>1. ASSUME NEW f \in Fds, Wss!Connect(f) \/ Wss!Disconnect(f) \/ Wss!OnlyAnswered(f)
      PROVE  ListInv'
  <2>1. UNCHANGED << users, wua_pos, sem, srv, wt, members, clean >>
    BY <1>1, Zenon DEF Wss!Connect, Wss!Disconnect, Wss!OnlyAnswered
  <2>2. QED
    BY <2>1, ListKept, <1>0 DEF WsTypes
<1>2. ASSUME NEW p \in Wss!Places, NEW l \in SUBSET {"info", "log"}, Wss!Alive(p, l),
             UNCHANGED << sem, srv, wt, wua_pos, members, clean >>
      PROVE  ListInv'
  <2>1. users' \in [Wss!Places -> User]
    <3> DEFINE z == [users EXCEPT ![p].age = 0]
               u == users[p].loops \cup l
    <3>1. z \in [Wss!Places -> User]
      BY <1>0 DEF WsTypes, User
    <3>2. users' = [z EXCEPT ![p].loops = u]
      BY <1>2, Zenon DEF Wss!Alive
    <3>3. u \in SUBSET {"info", "log"}
      BY <1>0, <1>2 DEF WsTypes, User
    <3> HIDE DEF z, u
    <3>4. QED
      BY <3>1, <3>2, <3>3 DEF User
  <2>2. SameIds
    BY <1>0, <1>2 DEF WsTypes, User, Wss!Alive
  <2>3. QED
    BY <1>0, <1>2, <2>1, <2>2, ListKept DEF WsTypes
<1>3. ASSUME UNCHANGED << users, sem, srv, wt, wua_pos, members, clean >>
      PROVE  ListInv'
  BY <1>3, ListKept, <1>0 DEF WsTypes
<1>4. ASSUME NEW f \in Fds,
             \/ Wss!Success(f) \/ Wss!Pong(f) \/ Wss!Answered(f)
             \/ \E loop \in {"info", "log"} : Wss!StartLoop(f, loop)
      PROVE  ListInv'
  <2>1. UNCHANGED << sem, srv, wt, wua_pos, members, clean >>
    BY <1>4, Zenon DEF Wss!Success, Wss!Pong, Wss!Answered, Wss!StartLoop
  <2>2. \/ UNCHANGED users
        \/ Wss!wua_geti(f) >= 0 /\ \E l \in SUBSET {"info", "log"} : Wss!Alive(Wss!wua_geti(f), l)
    BY <1>4 DEF Wss!Success, Wss!Pong, Wss!Answered, Wss!StartLoop
  <2>3. QED
    BY <1>0, <1>2, <1>3, <2>1, <2>2, WuaGeti
<1>5. ASSUME NEW f \in Fds, Wss!Login(f)
      PROVE  ListInv'
  <2>1. CASE Wss!wua_geti(f) >= 0 \/ ~Wss!HasRoom
    <3>1. UNCHANGED << users, wua_pos, sem, srv, wt, members, clean >>
      BY <1>5, <2>1, Zenon DEF Wss!Login
    <3>2. QED
      BY <1>3, <3>1
  <2>2. CASE ~(Wss!wua_geti(f) >= 0 \/ ~Wss!HasRoom)
    <3>1. /\ wua_pos' = wua_pos + 1 /\ members' = Append(members, f) /\ UNCHANGED << srv, wt, clean >>
          /\ \/ /\ wua_pos >= 0 /\ sem' = [sem EXCEPT ![wua_pos] = "free"]
                /\ users' = [users EXCEPT ![wua_pos] = [id |-> f, age |-> 0, loops |-> {}]]
             \/ ~(wua_pos >= 0) /\ UNCHANGED << sem, users >>
          /\ wua_pos < WUA_MAX - 1
      BY <1>5, <2>2, Zenon DEF Wss!Login, Wss!HasRoom
    <3>2. WsTypes'
      <4>1. [id |-> f, age |-> 0, loops |-> {}] \in User
        BY DEF User
      <4>2. users' \in [Wss!Places -> User] /\ sem' \in [Wss!Places -> {"none", "free", "taken"}]
        BY <1>0, <3>1, <4>1 DEF WsTypes
      <4>3. QED
        BY <1>0, <3>1, <4>2 DEF WsTypes
    <3>3. ASSUME clean
          PROVE  MembersListed'
      <4> DEFINE len == Len(members)
      <4>1. /\ WUA_MAX \in Nat /\ members \in Seq(Fds) /\ len \in Nat /\ wua_pos = len
            /\ len < WUA_MAX - 1
            /\ \A m, n \in 1 .. len : members[m] = members[n] => m = n
            /\ \A n \in 1 .. len : users[n - 1].id = members[n]
        BY <3>1, <3>3, WsConstants DEF ListInv, MembersListed
      <4>2. /\ members' \in Seq(Fds) /\ Len(members') = len + 1 /\ members'[len + 1] = f
            /\ \A n \in 1 .. len : members'[n] = members[n]
        BY <3>1, <4>1
      <4>3. \A n \in 1 .. len : members[n] # f
        <5>1. \A p \in Wss!Places : p < wua_pos => users[p].id # f
          BY <1>0, <2>2, WuaGeti
        <5>2. \A n \in 1 .. len : n - 1 \in Wss!Places /\ n - 1 < wua_pos
          BY <4>1 DEF Wss!Places
        <5>3. QED
          BY <4>1, <5>1, <5>2
      <4>4. wua_pos \in Wss!Places /\ users'[wua_pos].id = f
            /\ \A n \in 1 .. len : users'[n - 1].id = users[n - 1].id
        <5>1. wua_pos \in Wss!Places /\ \A n \in 1 .. len : n - 1 \in Wss!Places /\ n - 1 # wua_pos
          BY <4>1 DEF Wss!Places
        <5>2. users' = [users EXCEPT ![wua_pos] = [id |-> f, age |-> 0, loops |-> {}]]
          BY <3>1, <4>1
        <5>3. QED
          BY <1>0, <5>1, <5>2 DEF WsTypes
      <4>5. \A n \in 1 .. len + 1 : n \in 1 .. len \/ n = len + 1
        BY <4>1
      <4> HIDE DEF len
      <4>6. \A n \in 1 .. len + 1 : users'[n - 1].id = members'[n]
        BY <4>1, <4>2, <4>4, <4>5
      <4>7. \A m, n \in 1 .. len + 1 : members'[m] = members'[n] => m = n
        BY <4>1, <4>2, <4>3, <4>5
      <4>8. QED
        <5>1. wua_pos' = len + 1 /\ len + 1 <= WUA_MAX - 1
          BY <3>1, <4>1
        <5>2. QED
          BY <4>2, <4>6, <4>7, <5>1 DEF MembersListed
    <3>4. QED
      BY <3>1, <3>2, <3>3 DEF ListInv, MembersListed
  <2>3. QED
    BY <2>1, <2>2
<1>6. ASSUME NEW pos, Wss!wua_del(pos), UNCHANGED << sem, srv >>, WsTypes => wt' \in WtStates
      PROVE  ListInv'
  <2>1. users' \in [Wss!Places -> User]
    <3>1. pos \in Wss!Places /\ pos + 1 < WUA_MAX => pos + 1 \in Wss!Places
      BY WsConstants DEF Wss!Places
    <3>2. QED
      BY <1>0, <1>6, <3>1 DEF WsTypes, Wss!wua_del, Wss!UsersAfterDel
  <2>2. wua_pos' \in Int
    BY <1>0, <1>6 DEF Wss!wua_del
  <2>3. QED
    BY <1>0, <1>6, <2>1, <2>2, DelKeepsList DEF ListInv, WsTypes
<1>7. CASE Wss!AnswerBegins
  <2>1. UNCHANGED << users, wua_pos, sem, wt, members, clean >>
    BY <1>7, Zenon DEF Wss!AnswerBegins
  <2>2. srv' \in SrvStates
    BY <1>0, <1>7, WuaGeti DEF Wss!AnswerBegins, Wss!SrvIdle, WsTypes, SrvStates
  <2>3. QED
    BY <1>0, <2>1, <2>2, ListKept DEF WsTypes
<1>8. CASE Wss!Panic
  <2>1. << >> \in Seq(Fds) /\ Len(<< >>) = 0
    OBVIOUS
  <2>2. /\ users' = [p \in Wss!Places |-> Wss!Nobody] /\ wua_pos' = 0 /\ members' = << >> /\ clean'
        /\ sem' = [p \in Wss!Places |-> "none"] /\ srv' = Wss!SrvIdle /\ wt' = Wss!WtStart
    BY <1>8, Zenon DEF Wss!Panic
  <2>3. QED
    BY <2>1, <2>2, WsConstants DEF ListInv, WsTypes, MembersListed, Wss!Nobody, Wss!Places, User, SrvStates, WtStates,
                         Wss!SrvIdle, Wss!WtStart
<1>9. CASE Wss!AnswerWaits
  <2>1. UNCHANGED << users, wua_pos, wt, members, clean >>
    BY <1>9, Zenon DEF Wss!AnswerWaits
  <2>2. srv' \in SrvStates /\ sem' \in [Wss!Places -> {"none", "free", "taken"}]
    BY <1>0, <1>9 DEF Wss!AnswerWaits, Wss!SrvIdle, WsTypes, SrvStates
  <2>3. QED
    BY <1>0, <2>1, <2>2, ListKept DEF WsTypes
<1>10. ASSUME NEW p, Wss!Touch(p) \/ UNCHANGED users
       PROVE  /\ users' \in [Wss!Places -> User]
              /\ SameIds
  BY <1>0, <1>10 DEF WsTypes, User, Wss!Touch
<1>11. CASE Wss!AnswerSends
  <2>1. UNCHANGED << wua_pos, wt, members, clean >> /\ (Wss!Touch(srv.i) \/ UNCHANGED users)
    BY <1>11, Zenon DEF Wss!AnswerSends
  <2>2. srv' \in SrvStates /\ sem' \in [Wss!Places -> {"none", "free", "taken"}]
    <3>1. srv' = Wss!SrvIdle /\ sem' = [sem EXCEPT ![srv.i] = "free"]
      BY <1>11, Zenon DEF Wss!AnswerSends, Wss!Give
    <3>2. QED
      <4>1. srv' \in SrvStates
        BY <3>1 DEF Wss!SrvIdle, SrvStates
      <4>2. QED
        BY <1>0, <3>1, <4>1 DEF WsTypes
  <2>3. QED
    BY <1>0, <1>10, <2>1, <2>2, ListKept DEF WsTypes
<1>12. CASE Wss!Ages
  <2>1. UNCHANGED << wua_pos, sem, srv, wt, members, clean >>
    BY <1>12, Zenon DEF Wss!Ages
  <2>2. PICK p \in Wss!Places : users' = [users EXCEPT ![p].age = users[p].age + 1]
    BY <1>12, Zenon DEF Wss!Ages
  <2>3. /\ users' \in [Wss!Places -> User]
        /\ SameIds
    BY <1>0, <2>2 DEF WsTypes, User
  <2>4. QED
    BY <1>0, <2>1, <2>3, ListKept DEF WsTypes
<1>13. CASE Wss!Restarts \/ Wss!Info
  <2>1. UNCHANGED << users, wua_pos, srv, members, clean >>
    BY <1>13, Zenon DEF Wss!Restarts, Wss!Info
  <2>2. /\ sem' \in [Wss!Places -> {"none", "free", "taken"}]
        /\ wt' \in WtStates
    BY <1>0, <1>13 DEF WsTypes, WtStates, Wss!Restarts, Wss!Info, Wss!Then, Wss!WtStart
  <2>3. QED
    BY <1>0, <2>1, <2>2, ListKept DEF WsTypes
<1>14. CASE Wss!Check
  <2>1. UNCHANGED << sem, srv >> /\ wt' \in WtStates
    BY <1>0, <1>14 DEF WsTypes, WtStates, Wss!Check, Wss!Then
  <2>2. CASE users[wt.i].age = 2
    BY <1>6, <1>14, <2>1, <2>2 DEF Wss!Check
  <2>3. CASE users[wt.i].age # 2
    <3>1. UNCHANGED << users, wua_pos, members, clean >>
      BY <1>14, <2>3 DEF Wss!Check
    <3>2. QED
      BY <1>0, <2>1, <3>1, ListKept DEF WsTypes
  <2>4. QED
    BY <2>2, <2>3
<1>15. CASE Wss!InfoSend \/ Wss!Log \/ Wss!LogSend
  <2>1. UNCHANGED << wua_pos, srv, members, clean >> /\ (Wss!Touch(wt.i) \/ UNCHANGED users)
    BY <1>15, Zenon DEF Wss!InfoSend, Wss!Log, Wss!LogSend
  <2>2. /\ sem' \in [Wss!Places -> {"none", "free", "taken"}]
        /\ wt' \in WtStates
    BY <1>0, <1>15 DEF WsTypes, WtStates, Wss!InfoSend, Wss!Log, Wss!LogSend, Wss!Then, Wss!WtStart, Wss!Give
  <2>3. QED
    BY <1>0, <1>10, <2>1, <2>2, ListKept DEF WsTypes
<1>16. ASSUME NEW f \in Fds, NEW pos, Wss!Logout(f) \/ Wss!DebugDelete(f, pos)
       PROVE  ListInv'
  <2>1. UNCHANGED << sem, srv, wt >> /\ \E x : Wss!wua_del(x)
    BY <1>16, Zenon DEF Wss!Logout, Wss!DebugDelete
  <2>2. QED
    BY <1>6, <2>1 DEF WsTypes
<1>17. CASE UNCHANGED wsVars
  BY <1>3, <1>17 DEF wsVars
<1>18. QED
  BY <1>1, <1>4, <1>5, <1>7, <1>8, <1>9, <1>11, <1>12, <1>13, <1>14, <1>15, <1>16, <1>17, Zenon
  DEF Wss!Next

\* A slot whose semaphore is taken has one who will give it, whatever step comes: the
\* server task or wua_task is between take and give, or the failed info loop left it.
LEMMA TakenStep == WsTypes /\ Wss!TakenIsSending /\ [Wss!Next]_wsVars => Wss!TakenIsSending'
<1> SUFFICES ASSUME WsTypes, Wss!TakenIsSending, [Wss!Next]_wsVars,
                    NEW p \in Wss!Places, sem'[p] = "taken"
             PROVE  \/ srv'.pc = "send" /\ srv'.i = p
                    \/ wt'.pc \in {"infosend", "logsend"} /\ wt'.i = p
                    \/ p \in leaked'
  BY DEF Wss!TakenIsSending, Wss!Places
<1> DEFINE Held == \/ srv.pc = "send" /\ srv.i = p
                   \/ wt.pc \in {"infosend", "logsend"} /\ wt.i = p
                   \/ p \in leaked
<1>0. /\ sem \in [Wss!Places -> {"none", "free", "taken"}] /\ srv \in SrvStates /\ wt \in WtStates
      /\ sem[p] = "taken" => Held
  BY DEF WsTypes, Wss!TakenIsSending
<1>1. CASE UNCHANGED << sem, srv, wt, leaked >>
  BY <1>0, <1>1
<1>2. ASSUME NEW f \in Fds,
             \/ Wss!Connect(f) \/ Wss!Disconnect(f) \/ Wss!Logout(f)
             \/ Wss!Success(f) \/ Wss!Pong(f) \/ Wss!Answered(f) \/ Wss!OnlyAnswered(f)
             \/ \E loop \in {"info", "log"} : Wss!StartLoop(f, loop)
             \/ \E pos \in Wss!Places : Wss!DebugDelete(f, pos)
      PROVE  UNCHANGED << sem, srv, wt, leaked >>
  BY <1>2, Zenon DEF Wss!Connect, Wss!Disconnect, Wss!Logout, Wss!Success, Wss!Pong,
                     Wss!Answered, Wss!OnlyAnswered, Wss!StartLoop, Wss!DebugDelete
\* A login gives the new user a free semaphore.
<1>3. ASSUME NEW f \in Fds, Wss!Login(f)
      PROVE  Held /\ UNCHANGED << srv, wt >> /\ (p \in leaked => p \in leaked')
  <2>1. /\ UNCHANGED << srv, wt >>
        /\ \/ UNCHANGED << sem, leaked >>
           \/ sem' = [sem EXCEPT ![wua_pos] = "free"] /\ leaked' = leaked \ {wua_pos}
    BY <1>3, Zenon DEF Wss!Login
  <2>2. QED
    BY <1>0, <2>1
<1>4. CASE Wss!AnswerBegins
  BY <1>0, <1>4 DEF Wss!AnswerBegins
<1>5. CASE Wss!Panic
  BY <1>5 DEF Wss!Panic
<1>6. CASE Wss!AnswerWaits
  <2>1. CASE sem[srv.i] = "free"
    <3>1. /\ sem' = [sem EXCEPT ![srv.i] = "taken"] /\ srv' = [srv EXCEPT !.pc = "send"]
          /\ UNCHANGED << wt, leaked >> /\ srv.pc = "wait"
      BY <1>6, <2>1, Zenon DEF Wss!AnswerWaits
    <3>2. srv'.pc = "send" /\ srv'.i = srv.i
      BY <1>0, <3>1 DEF SrvStates
    <3>3. QED
      BY <1>0, <3>1, <3>2
  <2>2. CASE sem[srv.i] # "free"
    BY <1>0, <1>6, <2>2 DEF Wss!AnswerWaits
  <2>3. QED
    BY <2>1, <2>2
<1>7. CASE Wss!AnswerSends
  <2>1. sem' = [sem EXCEPT ![srv.i] = "free"] /\ UNCHANGED << wt, leaked >> /\ srv.pc = "send"
    BY <1>7, Zenon DEF Wss!AnswerSends, Wss!Give
  <2>2. QED
    BY <1>0, <2>1
<1>8. CASE Wss!Ages
  BY <1>1, <1>8, Zenon DEF Wss!Ages
<1>9. CASE Wss!Restarts \/ Wss!Check
  <2>1. UNCHANGED << sem, srv, leaked >> /\ wt.pc = "check"
    BY <1>9, Zenon DEF Wss!Restarts, Wss!Check, Wss!At
  <2>2. QED
    BY <1>0, <2>1
<1>10. CASE Wss!Info
  <2>1. /\ wt.pc = "info" /\ UNCHANGED << srv, leaked >>
        /\ \/ sem' = [sem EXCEPT ![wt.i] = "taken"] /\ wt' = [wt EXCEPT !.pc = "infosend"]
           \/ sem' = sem
    BY <1>10, Zenon DEF Wss!Info, Wss!Then
  <2>2. QED
    BY <1>0, <2>1 DEF WtStates
<1>11. CASE Wss!InfoSend
  <2>1. /\ wt.pc = "infosend" /\ UNCHANGED srv
        /\ \/ sem' = [sem EXCEPT ![wt.i] = "free"] /\ UNCHANGED leaked
           \/ sem' = sem /\ leaked' = leaked \cup {wt.i}
    BY <1>11, Zenon DEF Wss!InfoSend, Wss!Give
  <2>2. QED
    BY <1>0, <2>1
<1>12. CASE Wss!Log
  <2>1. /\ wt.pc = "log" /\ UNCHANGED srv
        /\ \/ /\ sem' = [sem EXCEPT ![wt.i] = "taken"] /\ wt' = [wt EXCEPT !.pc = "logsend"]
              /\ UNCHANGED leaked
           \/ sem' = [sem EXCEPT ![wt.i] = "free"] /\ leaked' = leaked \ {wt.i}
           \/ UNCHANGED << sem, leaked >>
    BY <1>12, Zenon DEF Wss!Log, Wss!Then, Wss!Give
  <2>2. QED
    BY <1>0, <2>1 DEF WtStates
<1>13. CASE Wss!LogSend
  <2>1. /\ wt.pc = "logsend" /\ UNCHANGED << srv, leaked >>
        /\ sem' = [sem EXCEPT ![wt.i] = "free"]
    BY <1>13, Zenon DEF Wss!LogSend, Wss!Give
  <2>2. QED
    BY <1>0, <2>1
<1>14. CASE UNCHANGED wsVars
  BY <1>1, <1>14, Zenon DEF wsVars
<1>15. QED
  BY <1>0, <1>1, <1>2, <1>3, <1>4, <1>5, <1>6, <1>7, <1>8, <1>9, <1>10, <1>11, <1>12, <1>13, <1>14
     DEF Wss!Next

LEMMA ApplicationMovesUsers ==
    [MCNext]_<< part, timerVars, wsVars, settingsVars, updateVars >> => [Wss!Next]_wsVars
BY DEF MCNext

\* For any number of connections and any length of the list, whatever requests, pings
\* and lags come: as long as only one of the last two users has been deleted at a time,
\* the list holds the users that are logged in, in their order and once each (wua_add,
\* wua_del).
THEOREM ApplicationListIsExact == MCSpec => []ListIsExact
<1>1. MCInit => ListInv
  BY ListInit DEF MCInit
<1>2. ListInv => ListIsExact
  BY DEF ListInv, MembersListed, ListIsExact, Wss!ListIsExact
<1>3. QED
  BY <1>1, <1>2, ApplicationMovesUsers, ListStep, PTL DEF MCSpec

\* A semaphore of a slot that is taken will be given by the task that sends, unless it
\* was kept by an info loop whose send failed.
THEOREM ApplicationTakenIsSending == MCSpec => []TakenIsSending
<1>1. MCInit => ListInv /\ Wss!TakenIsSending
  <2>1. Wss!Init => Wss!TakenIsSending
    BY DEF Wss!Init, Wss!TakenIsSending
  <2>2. QED
    BY <2>1, ListInit DEF MCInit
<1>2. ListInv /\ Wss!TakenIsSending /\ [Wss!Next]_wsVars => (ListInv /\ Wss!TakenIsSending)'
  BY ListStep, TakenStep DEF ListInv
<1>3. Wss!TakenIsSending => TakenIsSending
  BY DEF TakenIsSending
<1>4. QED
  BY <1>1, <1>2, <1>3, ApplicationMovesUsers, PTL DEF MCSpec

-----------------------------------------------------------------------------
(***************************************************************************)
(* Timers.  No timer lies within a later one of its pin: so each that was stored is    *)
(* added again after a reset.  While the page shifts the slots, one slot is a hole: the   *)
(* one to be deleted, then the one that was copied last.                       *)
(***************************************************************************)

ScanPC == {"sleep", "on", "off"}
PagePC == {"idle", "erase", "set", "shift"}
Timer == [kind : TimerKinds, running : BOOLEAN]

TimerTypes ==
    /\ myt \in [Tim!Slot -> Timer] /\ myt_pos \in Int /\ myt_pos <= TIMER_SIZE
    /\ myt_running \in BOOLEAN /\ strayed \in BOOLEAN
    /\ scan \in [pc : ScanPC, i : Nat] /\ page \in [pc : PagePC, i : Nat, pos : Int]
    /\ page.pc = "shift" => page.i < myt_pos \/ page.i = 0
    /\ ~myt_running => scan = Tim!Asleep

\* The slot that does not count while the page deletes.
InUse(s) ==
    /\ s < myt_pos
    /\ page.pc = "shift" => s # (IF page.i <= page.pos THEN page.pos ELSE page.i)

Fresh(list) == \A m, n \in 1 .. Len(list) : m < n => ~Tim!Within(list[m], list[n])

FreshInv ==
    /\ \A m, n \in Tim!Slot : m < n /\ InUse(m) /\ InUse(n) => ~Tim!Within(myt[m].kind, myt[n].kind)
    /\ stored # NoKey => stored \in Seq(TimerKinds) /\ Len(stored) <= TIMER_SIZE /\ Fresh(stored)

\* A pin that is on has a timer that is marked, or is just being switched off.
PinInv ==
    ~strayed =>
    /\ page.pc = "shift" => scan = Tim!Asleep /\ page.pos \in 0 .. myt_pos - 1
    /\ scan.pc # "sleep" => scan.i < myt_pos
    /\ scan.pc = "on" => myt[scan.i].running
    /\ \A p \in pins : \/ \E s \in Tim!Slot : InUse(s) /\ myt[s].running /\ myt[s].kind.gpio = p
                       \/ scan.pc = "off" /\ myt[scan.i].kind.gpio = p

TimerInv == TimerTypes /\ FreshInv /\ PinInv

LEMMA TimerConstants == TIMER_SIZE \in Nat /\ TIMER_SIZE >= 1 /\ 3 \in Nat
BY ApplicationAssumption DEF Tim!TimersAssumption

LEMMA SlotsAre == Tim!Slot = 0 .. TIMER_SIZE - 1
BY DEF Tim!Slot

LEMMA KindsHaveOne == Tim!Unused \in Timer
<1>1. \E k \in TimerKinds : TRUE
  BY DEF TimerKinds
<1>2. QED
  BY <1>1 DEF Tim!Unused, Timer

\* time_timer_init: stored timers of which none lies within a later one are all added.
LEMMA AddedAll ==
  ASSUME NEW list \in Seq(TimerKinds), Fresh(list)
  PROVE  Tim!Added(list) = list
<1> DEFINE N == 0 .. Len(list)
           Next(f, n) == IF n = 0 THEN << >>
                         ELSE IF Tim!time_timer_exists(list[n], f[n - 1]) THEN f[n - 1]
                         ELSE Append(f[n - 1], list[n])
           added == CHOOSE f : f = [n \in N |-> Next(f, n)]
           head == [n \in N |-> SubSeq(list, 1, n)]
<1>0. Len(list) \in Nat
  OBVIOUS
<1>1. Tim!Added(list) = added[Len(list)]
  BY DEF Tim!Added
<1>2. ASSUME NEW n \in N, n # 0
      PROVE  Next(head, n) = SubSeq(list, 1, n)
  <2>1. n - 1 \in N /\ n \in 1 .. Len(list) /\ head[n - 1] = SubSeq(list, 1, n - 1)
    BY <1>2
  <2>2. /\ Len(SubSeq(list, 1, n - 1)) = n - 1
        /\ \A m \in 1 .. n - 1 : SubSeq(list, 1, n - 1)[m] = list[m]
    BY <2>1
  <2>3. ~Tim!time_timer_exists(list[n], head[n - 1])
    <3>1. ASSUME NEW m \in 1 .. n - 1
          PROVE  ~Tim!Within(head[n - 1][m], list[n])
      BY <2>1, <2>2, <3>1 DEF Fresh
    <3>2. Len(head[n - 1]) = n - 1
      BY <2>1, <2>2
    <3>3. QED
      BY <3>1, <3>2, Zenon DEF Tim!time_timer_exists
  <2>4. Append(SubSeq(list, 1, n - 1), list[n]) = SubSeq(list, 1, n)
    <3>1. /\ Append(SubSeq(list, 1, n - 1), list[n]) \in Seq(TimerKinds)
          /\ SubSeq(list, 1, n) \in Seq(TimerKinds)
          /\ Len(SubSeq(list, 1, n)) = n /\ Len(Append(SubSeq(list, 1, n - 1), list[n])) = n
      BY <2>1, <2>2
    <3>2. ASSUME NEW m \in 1 .. n
          PROVE  Append(SubSeq(list, 1, n - 1), list[n])[m] = SubSeq(list, 1, n)[m]
      BY <2>1, <2>2
    <3>3. QED
      BY <3>1, <3>2, SeqEqual
  <2>5. QED
    BY <1>2, <2>1, <2>3, <2>4
<1>3. head = [n \in N |-> Next(head, n)]
  <2>1. SubSeq(list, 1, 0) = << >>
    OBVIOUS
  <2>2. \A n \in N : Next(head, n) = SubSeq(list, 1, n)
    BY <1>2, <2>1
  <2>3. QED
    BY <2>2
<1>4. added = [n \in N |-> Next(added, n)]
  <2> HIDE DEF head, Next
  <2>1. QED
    BY <1>3, Zenon
<1>5. ASSUME NEW n \in N
      PROVE  added[n] = SubSeq(list, 1, n)
  <2> DEFINE Bad == { m \in N : added[m] # SubSeq(list, 1, m) }
  <2>1. CASE Bad = {}
    BY <2>1
  <2>2. CASE Bad # {}
    <3>1. Bad \in SUBSET Nat
      OBVIOUS
    <3>2. PICK m \in Bad : \A k \in Bad : m <= k
      <4> HIDE DEF Bad
      <4>1. QED
        BY <2>2, <3>1, Smallest
    <3>3. m \in N /\ added[m] # SubSeq(list, 1, m) /\ added[m] = Next(added, m)
      <4>1. added[m] = [i \in N |-> Next(added, i)][m]
        <5> HIDE DEF added
        <5>1. QED
          BY <1>4
      <4>2. QED
        BY <4>1
    <3>4. m # 0
      <4> HIDE DEF added
      <4>1. QED
        BY <3>3
    <3>5. m - 1 \in N /\ m - 1 \notin Bad
      <4>1. m \in Nat /\ m - 1 \in N
        <5>1. m \in N
          BY <3>3
        <5>. HIDE DEF Bad, added, head, Next
        <5>2. QED
          BY <1>0, <3>4, <5>1
      <4>2. m - 1 \in Bad => m <= m - 1
        <5> HIDE DEF Bad
        <5>1. QED
          BY <3>2
      <4>3. ~(m <= m - 1)
        BY <4>1
      <4>4. QED
        BY <4>1, <4>2, <4>3, Zenon
    <3>6. added[m - 1] = head[m - 1]
      <4> HIDE DEF added
      <4>1. QED
        BY <3>5
    <3>7. Next(added, m) = Next(head, m)
      <4> HIDE DEF added, head
      <4>1. QED
        BY <3>6
    <3>8. QED
      BY <1>2, <3>3, <3>4, <3>7
  <2>3. QED
    BY <2>1, <2>2
<1>6. SubSeq(list, 1, Len(list)) = list
  OBVIOUS
<1>7. QED
  <2> HIDE DEF added
  <2>1. QED
    BY <1>1, <1>5, <1>6

\* What is kept of the slots, and what a list of timers makes of them.
LEMMA KeptIs ==
  ASSUME TimerTypes
  PROVE  /\ Tim!Kept \in Seq(TimerKinds) /\ Len(Tim!Kept) <= TIMER_SIZE
         /\ \A n \in 1 .. Len(Tim!Kept) : Tim!Kept[n] = myt[n - 1].kind /\ n - 1 < myt_pos
         /\ myt_pos >= 0 => Len(Tim!Kept) = myt_pos
<1>0. myt_pos \in Int /\ myt_pos <= TIMER_SIZE /\ Tim!Slot = 0 .. TIMER_SIZE - 1
  BY SlotsAre DEF TimerTypes
<1>1. CASE myt_pos < 0
  <2>1. 1 .. myt_pos = {}
    BY <1>0, <1>1
  <2>2. Tim!Kept = << >>
    BY <2>1 DEF Tim!Kept
  <2>3. << >> \in Seq(TimerKinds) /\ Len(<< >>) = 0
    OBVIOUS
  <2>4. ~(myt_pos >= 0)
    BY <1>0, <1>1
  <2>5. 1 .. 0 = {}
    OBVIOUS
  <2>6. 0 <= TIMER_SIZE
    BY TimerConstants
  <2>7. QED
    BY <2>2, <2>3, <2>4, <2>5, <2>6, Zenon
<1>2. CASE myt_pos >= 0
  <2>1. \A n \in 1 .. myt_pos : myt[n - 1].kind \in TimerKinds
    BY <1>0, TimerConstants DEF TimerTypes, Timer
  <2>2. myt_pos \in Nat
    BY <1>0, <1>2
  <2>3. Tim!Kept \in Seq(TimerKinds) /\ Len(Tim!Kept) = myt_pos
        /\ \A n \in 1 .. myt_pos : Tim!Kept[n] = myt[n - 1].kind
    BY <2>1, <2>2 DEF Tim!Kept
  <2>4. QED
    BY <1>0, <2>2, <2>3, TimerConstants
<1>3. QED
  BY <1>0, <1>1, <1>2

LEMMA Loads ==
  ASSUME NEW list \in Seq(TimerKinds), Len(list) <= TIMER_SIZE, Fresh(list)
  PROVE  /\ Tim!Loaded(list) \in [Tim!Slot -> Timer]
         /\ \A m, n \in Tim!Slot : m < n /\ n < Len(list) =>
                ~Tim!Within(Tim!Loaded(list)[m].kind, Tim!Loaded(list)[n].kind)
<1>1. Len(list) \in Nat
  OBVIOUS
<1>2. Tim!Loaded(list) \in [Tim!Slot -> Timer]
  BY <1>1, KindsHaveOne, SlotsAre, TimerConstants DEF Tim!Loaded, Timer
<1>3. ASSUME NEW m \in Tim!Slot, NEW n \in Tim!Slot, m < n, n < Len(list)
      PROVE  ~Tim!Within(Tim!Loaded(list)[m].kind, Tim!Loaded(list)[n].kind)
  <2>1. m \in Nat /\ n \in Nat /\ m < Len(list)
    BY <1>1, <1>3, SlotsAre, TimerConstants
  <2>2. Tim!Loaded(list)[m].kind = list[m + 1] /\ Tim!Loaded(list)[n].kind = list[n + 1]
    BY <1>3, <2>1 DEF Tim!Loaded
  <2>3. m + 1 \in 1 .. Len(list) /\ n + 1 \in 1 .. Len(list) /\ m + 1 < n + 1
    BY <1>1, <1>3, <2>1
  <2>4. QED
    BY <2>2, <2>3 DEF Fresh
<1>4. QED
  BY <1>2, <1>3

\* The lists that a reset may read are added whole.
LEMMA LeftoversFresh ==
  ASSUME NEW list \in Tim!Leftovers
  PROVE  list \in Seq(TimerKinds) /\ Len(list) <= TIMER_SIZE /\ Fresh(list)
<1>1. CASE list = << >>
  BY <1>1, TimerConstants DEF Fresh
<1>2. CASE \E k \in TimerKinds : list = << k >>
  <2>1. PICK k \in TimerKinds : list = << k >>
    BY <1>2
  <2>2. list \in Seq(TimerKinds) /\ Len(list) = 1
    BY <2>1
  <2>3. QED
    BY <2>2, TimerConstants DEF Fresh
<1>3. QED
  BY <1>1, <1>2 DEF Tim!Leftovers

LEMMA Reloads ==
  ASSUME FreshInv, NEW list \in Tim!Read
  PROVE  /\ list \in Seq(TimerKinds) /\ Len(list) <= TIMER_SIZE /\ Fresh(list)
         /\ Tim!Added(list) = list
<1>1. list \in Seq(TimerKinds) /\ Len(list) <= TIMER_SIZE /\ Fresh(list)
  <2>1. CASE stored = NoKey
    BY <2>1, LeftoversFresh DEF Tim!Read
  <2>2. CASE stored # NoKey
    BY <2>2 DEF FreshInv, Tim!Read
  <2>3. QED
    BY <2>1, <2>2
<1>2. QED
  BY <1>1, AddedAll

\* A start with the slots that a list fills.
LEMMA StartsWith ==
  ASSUME NEW list \in Seq(TimerKinds), Len(list) <= TIMER_SIZE, Fresh(list),
         (/\ myt = Tim!Loaded(list) /\ myt_pos = Len(list) /\ pins = {} /\ myt_running = FALSE
          /\ scan = Tim!Asleep /\ page = Tim!Idle /\ strayed = FALSE)',
         (stored # NoKey => stored \in Seq(TimerKinds) /\ Len(stored) <= TIMER_SIZE /\ Fresh(stored))'
  PROVE  TimerInv'
<1>1. page'.pc = "idle" /\ page' \in [pc : PagePC, i : Nat, pos : Int]
      /\ scan'.pc = "sleep" /\ scan' \in [pc : ScanPC, i : Nat]
  BY DEF Tim!Idle, Tim!Asleep, PagePC, ScanPC
<1>2. TimerTypes'
  <2>1. myt' \in [Tim!Slot -> Timer] /\ myt_pos' \in Int /\ myt_pos' <= TIMER_SIZE
    BY Loads
  <2>2. scan' = Tim!Asleep /\ myt_running' \in BOOLEAN /\ strayed' \in BOOLEAN
    OBVIOUS
  <2>3. QED
    BY <1>1, <2>1, <2>2 DEF TimerTypes
<1>3. FreshInv'
  BY Loads DEF FreshInv, InUse
<1>4. PinInv'
  BY <1>1 DEF PinInv
<1>5. QED
  BY <1>2, <1>3, <1>4 DEF TimerInv

\* Steps of the task leave the kinds and the page alone.
LEMMA KindsStay ==
  ASSUME FreshInv, UNCHANGED << myt_pos, page, stored >>,
         \A s \in Tim!Slot : myt'[s].kind = myt[s].kind
  PROVE  FreshInv'
BY DEF FreshInv, InUse

LEMMA ScanLookKeeps == TimerInv /\ Tim!ScanLook => TimerInv'
<1> SUFFICES ASSUME TimerInv, Tim!ScanLook PROVE TimerInv'
  OBVIOUS
<1>0. TimerTypes /\ FreshInv /\ PinInv
  BY DEF TimerInv
<1> USE <1>0, TimerConstants, SlotsAre
<1>1. /\ myt_running /\ scan.pc = "sleep"
      /\ strayed' = (strayed \/ page.pc = "shift")
      /\ UNCHANGED << myt_pos, pins, now, myt_running, page, stored, edits >>
  BY DEF Tim!ScanLook
<1>2. \A s \in Tim!Slot : InUse(s)' <=> InUse(s)
  BY <1>1 DEF InUse
<1>3. ASSUME myt' = myt, scan' = Tim!Asleep \/ scan' = [scan EXCEPT !.i = scan.i + 1]
      PROVE  TimerInv'
  <2>1. scan' \in [pc : ScanPC, i : Nat] /\ scan'.pc = "sleep"
    BY <1>1, <1>3 DEF TimerTypes, Tim!Asleep, ScanPC
  <2>2. TimerTypes'
    BY <1>1, <1>3, <2>1 DEF TimerTypes
  <2>3. FreshInv'
    BY <1>1, <1>3, KindsStay
  <2>4. PinInv'
    BY <1>1, <1>2, <1>3, <2>1 DEF PinInv
  <2>5. QED
    BY <2>2, <2>3, <2>4 DEF TimerInv
<1>4. ASSUME NEW on \in BOOLEAN, scan.i < myt_pos, on # myt[scan.i].running,
             myt' = [myt EXCEPT ![scan.i].running = on],
             scan' = [scan EXCEPT !.pc = IF on THEN "on" ELSE "off"]
      PROVE  TimerInv'
  <2> DEFINE i == scan.i
  <2>1. i \in Tim!Slot /\ scan' \in [pc : ScanPC, i : Nat] /\ scan'.i = i
        /\ scan'.pc = (IF on THEN "on" ELSE "off")
    BY <1>4 DEF TimerTypes, ScanPC
  <2>2. /\ myt' \in [Tim!Slot -> Timer] /\ myt'[i].running = on /\ myt'[i].kind = myt[i].kind
        /\ \A s \in Tim!Slot : s # i => myt'[s] = myt[s]
    BY <1>4, <2>1 DEF TimerTypes, Timer
  <2>3. TimerTypes'
    BY <1>1, <2>1, <2>2 DEF TimerTypes
  <2>4. FreshInv'
    BY <1>1, <2>2, KindsStay
  <2>5. PinInv'
    <3> SUFFICES ASSUME ~strayed, page.pc # "shift", ~strayed'
                 PROVE  (/\ page.pc = "shift" => scan = Tim!Asleep /\ page.pos \in 0 .. myt_pos - 1
                         /\ scan.pc # "sleep" => scan.i < myt_pos
                         /\ scan.pc = "on" => myt[scan.i].running
                         /\ \A p \in pins : \/ \E s \in Tim!Slot : InUse(s) /\ myt[s].running /\ myt[s].kind.gpio = p
                                            \/ scan.pc = "off" /\ myt[scan.i].kind.gpio = p)'
      BY <1>1 DEF PinInv
    <3>1. ASSUME NEW p \in pins
          PROVE  \/ \E s \in Tim!Slot : InUse(s)' /\ myt'[s].running /\ myt'[s].kind.gpio = p
                 \/ ~on /\ myt'[i].kind.gpio = p
      <4>1. PICK s \in Tim!Slot : InUse(s) /\ myt[s].running /\ myt[s].kind.gpio = p
        BY <1>1 DEF PinInv
      <4>2. CASE s = i
        BY <1>4, <2>2, <4>1, <4>2
      <4>3. CASE s # i
        BY <1>2, <2>2, <4>1, <4>3
      <4>4. QED
        BY <4>2, <4>3
    <3>2. QED
      BY <1>1, <1>4, <2>1, <2>2, <3>1
  <2>6. QED
    BY <2>3, <2>4, <2>5 DEF TimerInv
<1>5. scan.i \in Nat /\ myt_pos \in Int
  BY DEF TimerTypes
<1>6. CASE scan.i >= myt_pos
  BY <1>3, <1>6 DEF Tim!ScanLook
<1>7. CASE scan.i < myt_pos
  <2> DEFINE on == Tim!t3ch_time_chk(myt[scan.i].kind)
  <2>1. on \in BOOLEAN /\ ~(scan.i >= myt_pos)
    BY <1>5, <1>7 DEF Tim!t3ch_time_chk
  <2>2. \/ myt' = myt /\ scan' = [scan EXCEPT !.i = scan.i + 1]
        \/ /\ on # myt[scan.i].running
           /\ myt' = [myt EXCEPT ![scan.i].running = on]
           /\ scan' = [scan EXCEPT !.pc = IF on THEN "on" ELSE "off"]
    BY <2>1, Zenon DEF Tim!ScanLook
  <2> HIDE DEF on
  <2>3. QED
    BY <1>3, <1>4, <1>7, <2>1, <2>2
<1>8. QED
  BY <1>5, <1>6, <1>7

LEMMA ScanSwitchKeeps == TimerInv /\ Tim!ScanSwitch => TimerInv'
<1> SUFFICES ASSUME TimerInv, Tim!ScanSwitch PROVE TimerInv'
  OBVIOUS
<1>0. TimerTypes /\ FreshInv /\ PinInv
  BY DEF TimerInv
<1> USE <1>0, TimerConstants, SlotsAre
<1> DEFINE i == scan.i
           gpio == myt[i].kind.gpio
<1>1. /\ myt_running /\ scan.pc \in {"on", "off"} /\ scan' = [pc |-> "sleep", i |-> i + 1]
      /\ pins' = IF scan.pc = "on" THEN pins \cup {gpio} ELSE pins \ {gpio}
      /\ UNCHANGED << myt, myt_pos, myt_running, page, stored, strayed >>
  BY DEF Tim!ScanSwitch
<1>2. TimerTypes'
  BY <1>1 DEF TimerTypes, ScanPC
<1>3. FreshInv'
  BY <1>1, KindsStay
<1>4. PinInv'
  <2> SUFFICES ASSUME ~strayed, NEW p \in pins'
               PROVE  \E s \in Tim!Slot : InUse(s) /\ myt[s].running /\ myt[s].kind.gpio = p
    <3>1. \A s \in Tim!Slot : InUse(s)' <=> InUse(s)
      BY <1>1 DEF InUse
    <3>2. ~strayed => page.pc # "shift"
      BY <1>1 DEF PinInv, Tim!Asleep
    <3>3. QED
      BY <1>1, <3>1, <3>2 DEF PinInv
  <2>1. CASE p \in pins /\ p # gpio
    BY <2>1 DEF PinInv
  <2>2. CASE p = gpio
    <3>1. scan.pc = "on" /\ i < myt_pos /\ myt[i].running /\ page.pc # "shift" /\ i \in Nat
      BY <1>1, <2>2 DEF PinInv, Tim!Asleep, TimerTypes
    <3>2. i \in Tim!Slot /\ InUse(i)
      BY <3>1 DEF InUse, TimerTypes
    <3>3. QED
      BY <2>2, <3>1, <3>2
  <2>3. QED
    BY <1>1, <2>1, <2>2
<1>5. QED
  BY <1>2, <1>3, <1>4 DEF TimerInv

LEMMA AddKeeps == ASSUME TimerInv, NEW k \in TimerKinds, Tim!Add(k) PROVE TimerInv'
<1>0. TimerTypes /\ FreshInv /\ PinInv
  BY DEF TimerInv
<1> USE <1>0, TimerConstants, SlotsAre
<1>1. page.pc = "idle" /\ UNCHANGED << pins, myt_running, scan, stored, strayed >>
  BY DEF Tim!Add, Tim!Request
<1>2. CASE UNCHANGED << myt, myt_pos, page >>
  BY <1>1, <1>2 DEF TimerInv, TimerTypes, FreshInv, PinInv, InUse
<1>3. CASE /\ ~Tim!time_timer_exists(k, Tim!Kept) /\ myt_pos \in Tim!Slot
           /\ myt' = [myt EXCEPT ![myt_pos] = [kind |-> k, running |-> FALSE]]
           /\ myt_pos' = myt_pos + 1 /\ page' = [page EXCEPT !.pc = "erase"]
  <2>1. /\ page' \in [pc : PagePC, i : Nat, pos : Int] /\ page'.pc = "erase"
        /\ myt' \in [Tim!Slot -> Timer] /\ myt'[myt_pos].kind = k
        /\ \A s \in Tim!Slot : s # myt_pos => myt'[s] = myt[s]
    BY <1>1, <1>3 DEF TimerTypes, PagePC, Timer
  <2>2. TimerTypes'
    BY <1>1, <1>3, <2>1 DEF TimerTypes
  <2>3. \A s \in Tim!Slot : InUse(s)' <=> s = myt_pos \/ InUse(s)
    BY <1>1, <1>3, <2>1 DEF InUse, TimerTypes
  <2>4. ASSUME NEW m \in Tim!Slot, m < myt_pos
        PROVE  ~Tim!Within(myt[m].kind, k) /\ InUse(m)
    <3>1. /\ m + 1 \in 1 .. Len(Tim!Kept) /\ Tim!Kept[m + 1] = myt[m].kind
      BY <1>3, <2>4, KeptIs
    <3>2. QED
      BY <1>1, <1>3, <2>4, <3>1 DEF Tim!time_timer_exists, InUse
  <2>5. FreshInv'
    <3>1. ASSUME NEW m \in Tim!Slot, NEW n \in Tim!Slot, m < n, InUse(m)', InUse(n)'
          PROVE  ~Tim!Within(myt'[m].kind, myt'[n].kind)
      <4>1. m # myt_pos /\ myt'[m] = myt[m] /\ m < myt_pos /\ InUse(m)
        BY <2>1, <2>3, <3>1 DEF InUse, TimerTypes
      <4>2. CASE n = myt_pos
        BY <2>1, <2>4, <4>1, <4>2
      <4>3. CASE n # myt_pos
        BY <2>1, <2>3, <3>1, <4>1, <4>3 DEF FreshInv
      <4>4. QED
        BY <4>2, <4>3
    <3>2. QED
      BY <1>1, <3>1 DEF FreshInv, InUse
  <2>6. PinInv'
    <3>1. ASSUME ~strayed, NEW p \in pins
        PROVE  \/ \E s \in Tim!Slot : InUse(s)' /\ myt'[s].running /\ myt'[s].kind.gpio = p
               \/ scan.pc = "off" /\ myt'[scan.i].kind.gpio = p
      <4>1. CASE \E s \in Tim!Slot : InUse(s) /\ myt[s].running /\ myt[s].kind.gpio = p
        <5>1. PICK s \in Tim!Slot : InUse(s) /\ myt[s].running /\ myt[s].kind.gpio = p
          BY <4>1
        <5>2. s # myt_pos
          BY <5>1 DEF InUse, TimerTypes
        <5>3. QED
          BY <2>1, <2>3, <5>1, <5>2
      <4>2. CASE scan.pc = "off" /\ myt[scan.i].kind.gpio = p
        <5>1. scan.i < myt_pos /\ scan.i \in Tim!Slot
          BY <3>1, <4>2 DEF PinInv, TimerTypes
        <5>2. QED
          BY <2>1, <4>2, <5>1 DEF TimerTypes
      <4>3. QED
        BY <3>1, <4>1, <4>2 DEF PinInv
    <3>2. ~strayed /\ scan.pc # "sleep" => scan.i < myt_pos /\ scan.i # myt_pos /\ scan.i \in Tim!Slot
      BY DEF PinInv, TimerTypes
    <3>3. ~strayed /\ scan.pc # "sleep" => scan.i < myt_pos + 1 /\ myt'[scan.i] = myt[scan.i]
      BY <2>1, <3>2 DEF TimerTypes
    <3>4. QED
      BY <1>1, <1>3, <2>1, <3>1, <3>3 DEF PinInv
  <2>7. QED
    BY <2>2, <2>5, <2>6 DEF TimerInv
<1>4. QED
  BY <1>2, <1>3, Zenon DEF Tim!Add, Tim!AddTo

LEMMA DeleteKeeps == ASSUME TimerInv, NEW pos \in Int, Tim!Delete(pos) PROVE TimerInv'
<1>0. TimerTypes /\ FreshInv /\ PinInv
  BY DEF TimerInv
<1> USE <1>0, TimerConstants, SlotsAre
<1>1. /\ page.pc = "idle" /\ pins' \in Tim!PinsAfterDel(pos)
      /\ page' = [pc |-> "shift", i |-> 0, pos |-> pos]
      /\ strayed' = (strayed \/ scan # Tim!Asleep \/ pos \notin 0 .. myt_pos - 1)
      /\ UNCHANGED << myt, myt_pos, myt_running, scan, stored >>
  BY DEF Tim!Delete, Tim!Request
<1>2. TimerTypes'
  <2>1. strayed' \in BOOLEAN
    BY <1>1, Zenon
  <2>2. page' \in [pc : PagePC, i : Nat, pos : Int] /\ page'.i = 0
    BY <1>1 DEF PagePC
  <2>3. QED
    BY <1>1, <2>1, <2>2 DEF TimerTypes
<1>3. \A s \in Tim!Slot : /\ InUse(s)' => InUse(s)
                          /\ pos >= 0 => (InUse(s)' <=> InUse(s) /\ s # pos)
  <2>1. myt_pos' = myt_pos /\ page'.pc = "shift" /\ page'.i = 0 /\ page'.pos = pos /\ page.pc # "shift"
    BY <1>1
  <2>2. QED
    BY <2>1 DEF InUse
<1>4. FreshInv'
  <2>1. ASSUME NEW m \in Tim!Slot, NEW n \in Tim!Slot, m < n, InUse(m)', InUse(n)'
        PROVE  ~Tim!Within(myt[m].kind, myt[n].kind)
    <3>1. InUse(m) /\ InUse(n)
      BY <1>3, <2>1, Zenon
    <3>2. \A a, b \in Tim!Slot : a < b /\ InUse(a) /\ InUse(b) => ~Tim!Within(myt[a].kind, myt[b].kind)
      BY <1>0 DEF FreshInv
    <3>3. QED
      BY <2>1, <3>1, <3>2, Zenon
  <2>2. QED
    BY <1>1, <2>1 DEF FreshInv
<1>5. PinInv'
  <2> SUFFICES ASSUME ~strayed'
               PROVE  /\ scan = Tim!Asleep /\ pos \in 0 .. myt_pos - 1
                      /\ \A p \in pins' : \E s \in Tim!Slot : InUse(s)' /\ myt[s].running /\ myt[s].kind.gpio = p
    BY <1>1 DEF PinInv, Tim!Asleep
  <2>1. /\ ~strayed /\ scan = Tim!Asleep /\ scan.pc = "sleep" /\ pos \in 0 .. myt_pos - 1
        /\ pos \in Tim!Slot /\ pos >= 0
    <3>1. ~strayed /\ scan = Tim!Asleep /\ pos \in 0 .. myt_pos - 1
      BY <1>1, Zenon
    <3>2. QED
      BY <3>1 DEF Tim!Asleep, TimerTypes
  <2>2. ASSUME NEW p \in pins'
        PROVE  \E s \in Tim!Slot : InUse(s)' /\ myt[s].running /\ myt[s].kind.gpio = p
    <3>1. p \in pins /\ (myt[pos].running => myt[pos].kind.gpio # p)
      BY <1>1, <2>1 DEF Tim!PinsAfterDel
    <3>2. PICK s \in Tim!Slot : InUse(s) /\ myt[s].running /\ myt[s].kind.gpio = p
      BY <2>1, <3>1 DEF PinInv
    <3>3. s # pos
      BY <3>1, <3>2
    <3>4. QED
      BY <1>3, <2>1, <3>2, <3>3
  <2>3. QED
    BY <2>1, <2>2
<1>6. QED
  BY <1>2, <1>4, <1>5 DEF TimerInv

LEMMA ShiftKeeps == TimerInv /\ Tim!ShiftSlot => TimerInv'
<1> SUFFICES ASSUME TimerInv, Tim!ShiftSlot PROVE TimerInv'
  OBVIOUS
<1>0. TimerTypes /\ FreshInv /\ PinInv
  BY DEF TimerInv
<1> USE <1>0, TimerConstants, SlotsAre
<1> DEFINE i == page.i
           pos == page.pos
<1>1. /\ page.pc = "shift" /\ strayed' = (strayed \/ scan # Tim!Asleep)
      /\ UNCHANGED << pins, myt_running, scan, stored >>
      /\ i \in Nat /\ pos \in Int /\ (i < myt_pos \/ i = 0)
      /\ myt_pos \in Int /\ myt_pos <= TIMER_SIZE /\ i \in Tim!Slot
  BY DEF Tim!ShiftSlot, TimerTypes
<1>2. strayed' \in BOOLEAN
  BY <1>1, Zenon
\* It is enough that each slot in use has the timer of one, in the same order.
<1>3. ASSUME TimerTypes', page'.pc \in {"shift", "erase"},
             NEW f \in [Tim!Slot -> Tim!Slot],
             \A s \in Tim!Slot : InUse(s)' => InUse(f[s]) /\ myt'[s] = myt[f[s]],
             page'.pc = "shift" => page'.pos = pos /\ myt_pos' = myt_pos,
             strayed \/ \A s \in Tim!Slot : InUse(s) => \E r \in Tim!Slot : f[r] = s /\ InUse(r)',
             \A m, n \in Tim!Slot : m < n /\ InUse(m)' /\ InUse(n)' => f[m] < f[n]
      PROVE  TimerInv'
  <2>1. FreshInv'
    <3>1. ASSUME NEW m \in Tim!Slot, NEW n \in Tim!Slot, m < n, InUse(m)', InUse(n)'
          PROVE  ~Tim!Within(myt'[m].kind, myt'[n].kind)
      <4>1. f[m] \in Tim!Slot /\ f[n] \in Tim!Slot
        BY <1>3
      <4>2. InUse(f[m]) /\ InUse(f[n]) /\ f[m] < f[n] /\ myt'[m] = myt[f[m]] /\ myt'[n] = myt[f[n]]
        BY <1>3, <3>1
      <4>3. QED
        BY <4>1, <4>2 DEF FreshInv
    <3>2. QED
      BY <1>1, <3>1 DEF FreshInv
  <2>2. PinInv'
    <3> SUFFICES ASSUME ~strayed'
                 PROVE  /\ scan = Tim!Asleep /\ pos \in 0 .. myt_pos - 1
                        /\ \A p \in pins : \E s \in Tim!Slot : InUse(s)' /\ myt'[s].running /\ myt'[s].kind.gpio = p
      <4>1. ASSUME scan = Tim!Asleep /\ pos \in 0 .. myt_pos - 1,
                   \A p \in pins : \E s \in Tim!Slot : InUse(s)' /\ myt'[s].running /\ myt'[s].kind.gpio = p
            PROVE  PinInv'
        <5>1. scan' = Tim!Asleep /\ scan'.pc = "sleep" /\ pins' = pins
          BY <1>1, <4>1 DEF Tim!Asleep
        <5>2. page'.pc = "shift" => page'.pos \in 0 .. myt_pos' - 1
          BY <1>3, <4>1
        <5>3. QED
          BY <4>1, <5>1, <5>2 DEF PinInv
      <4>2. QED
        BY <4>1 DEF PinInv
    <3>1. ~strayed /\ scan = Tim!Asleep /\ scan.pc = "sleep" /\ pos \in 0 .. myt_pos - 1
      <4>1. ~strayed /\ scan = Tim!Asleep
        BY <1>1, Zenon
      <4>2. QED
        BY <1>1, <4>1 DEF Tim!Asleep, PinInv
    <3>2. ASSUME NEW p \in pins
          PROVE  \E s \in Tim!Slot : InUse(s)' /\ myt'[s].running /\ myt'[s].kind.gpio = p
      <4>1. PICK s \in Tim!Slot : InUse(s) /\ myt[s].running /\ myt[s].kind.gpio = p
        BY <3>1 DEF PinInv
      <4>2. PICK r \in Tim!Slot : f[r] = s /\ InUse(r)'
        BY <1>3, <3>1, <4>1
      <4>3. QED
        BY <1>3, <4>1, <4>2
    <3>3. QED
      BY <3>1, <3>2
  <2>3. QED
    BY <1>3, <2>1, <2>2 DEF TimerInv
<1> DEFINE Id == [s \in Tim!Slot |-> s]
           Swap == [s \in Tim!Slot |-> IF s = i THEN i + 1 ELSE s]
<1>4. CASE i < myt_pos - 1
  <2>1. /\ page' = [page EXCEPT !.i = i + 1] /\ myt_pos' = myt_pos
        /\ myt' = IF i >= pos THEN [myt EXCEPT ![i] = myt[i + 1]] ELSE myt
    BY <1>4 DEF Tim!ShiftSlot, Tim!Shifts
  <2>2. /\ page' \in [pc : PagePC, i : Nat, pos : Int] /\ page'.i = i + 1 /\ page'.pc = "shift"
        /\ page'.pos = pos /\ i + 1 \in Tim!Slot
    BY <1>1, <1>4, <2>1 DEF TimerTypes
  <2>3. myt' \in [Tim!Slot -> Timer]
    BY <1>1, <2>1, <2>2 DEF TimerTypes
  <2>4. TimerTypes'
    BY <1>1, <1>2, <1>4, <2>1, <2>2, <2>3 DEF TimerTypes
  <2>5. CASE i < pos
    <3>1. \A s \in Tim!Slot : InUse(s)' <=> InUse(s)
      BY <1>1, <2>1, <2>2, <2>5 DEF InUse
    <3>2. myt' = myt
      BY <1>1, <2>1, <2>5
    <3>3. Id \in [Tim!Slot -> Tim!Slot] /\ \A q \in Tim!Slot : Id[q] = q
      OBVIOUS
    <3>. HIDE DEF Id
    <3>4. QED
      BY <1>3, <2>1, <2>2, <2>4, <3>1, <3>2, <3>3
  <2>6. CASE i >= pos
    <3>1. \A s \in Tim!Slot : /\ InUse(s) <=> s < myt_pos /\ s # i
                              /\ InUse(s)' <=> s < myt_pos /\ s # i + 1
      BY <1>1, <2>1, <2>2, <2>6 DEF InUse
    <3>2. Swap \in [Tim!Slot -> Tim!Slot]
      BY <2>2
    <3>3. \A s \in Tim!Slot : myt'[s] = myt[Swap[s]]
      BY <2>1, <2>2, <2>6 DEF TimerTypes
    <3>4. \A s \in Tim!Slot : InUse(s)' => InUse(Swap[s])
      BY <1>1, <1>4, <2>2, <3>1
    <3>5. ASSUME NEW s \in Tim!Slot, InUse(s) PROVE \E r \in Tim!Slot : Swap[r] = s /\ InUse(r)'
      <4>1. CASE s = i + 1
        BY <1>1, <1>4, <3>1, <4>1
      <4>2. CASE s # i + 1
        BY <1>1, <1>4, <3>1, <3>5, <4>2
      <4>3. QED
        BY <4>1, <4>2
    <3>6. \A m, n \in Tim!Slot : m < n /\ InUse(m)' /\ InUse(n)' => Swap[m] < Swap[n]
      BY <1>1, <2>2, <3>1
    <3>. HIDE DEF Swap
    <3>7. QED
      BY <1>3, <2>1, <2>2, <2>4, <3>2, <3>3, <3>4, <3>5, <3>6
  <2>7. QED
    BY <1>1, <2>5, <2>6
<1>5. CASE i >= myt_pos - 1
  <2>1. /\ myt_pos' = myt_pos - 1 /\ page' = [Tim!Idle EXCEPT !.pc = "erase"] /\ myt' = myt
    BY <1>1, <1>5 DEF Tim!ShiftSlot
  <2>2. page' \in [pc : PagePC, i : Nat, pos : Int] /\ page'.pc = "erase"
    BY <2>1 DEF Tim!Idle, PagePC
  <2>3. TimerTypes'
    BY <1>1, <1>2, <2>1, <2>2 DEF TimerTypes
  <2>4. i = myt_pos - 1 \/ myt_pos <= 0
    BY <1>1, <1>5
  <2>5. \A s \in Tim!Slot : InUse(s)' <=> s < myt_pos - 1
    BY <2>1, <2>2 DEF InUse
  <2>6. \A s \in Tim!Slot : InUse(s) <=> s < myt_pos /\ s # (IF i <= pos THEN pos ELSE i)
    BY <1>1 DEF InUse
  <2>7. \A s \in Tim!Slot : InUse(s)' => InUse(s)
    BY <1>1, <2>4, <2>5, <2>6
  <2>8. strayed \/ \A s \in Tim!Slot : InUse(s) => InUse(s)'
    <3>1. strayed \/ pos \in 0 .. myt_pos - 1
      BY <1>1 DEF PinInv
    <3>2. QED
      BY <1>1, <2>4, <2>5, <2>6, <3>1
  <2>9. Id \in [Tim!Slot -> Tim!Slot] /\ \A q \in Tim!Slot : Id[q] = q
    OBVIOUS
  <2>. HIDE DEF Id
  <2>10. QED
    BY <1>3, <2>1, <2>2, <2>3, <2>7, <2>8, <2>9
<1>6. QED
  BY <1>1, <1>4, <1>5

LEMMA ResetKeepsTimers == TimerInv /\ Tim!Reset => TimerInv'
<1> SUFFICES ASSUME TimerInv, Tim!Reset PROVE TimerInv'
  OBVIOUS
<1>0. FreshInv
  BY DEF TimerInv
<1>1. PICK read \in Tim!Read : myt' = Tim!Loaded(Tim!Added(read)) /\ myt_pos' = Len(Tim!Added(read))
  BY DEF Tim!Reset
<1>2. read \in Seq(TimerKinds) /\ Len(read) <= TIMER_SIZE /\ Fresh(read) /\ Tim!Added(read) = read
  BY <1>0, Reloads
<1>3. /\ myt' = Tim!Loaded(read) /\ myt_pos' = Len(read)
      /\ pins' = {} /\ myt_running' = FALSE /\ scan' = Tim!Asleep
      /\ page' = Tim!Idle /\ strayed' = FALSE /\ stored' = stored
  BY <1>1, <1>2 DEF Tim!Reset
<1>4. (stored # NoKey => stored \in Seq(TimerKinds) /\ Len(stored) <= TIMER_SIZE /\ Fresh(stored))'
  BY <1>0, <1>3 DEF FreshInv
<1>5. Tim!Loaded(read)' = Tim!Loaded(read)
  BY DEF Tim!Loaded, Tim!Unused, Tim!Slot
<1>6. QED
  BY <1>2, <1>3, <1>4, <1>5, StartsWith

LEMMA TimerStarts == Tim!Init => TimerInv
<1> SUFFICES ASSUME Tim!Init PROVE TimerInv
  OBVIOUS
<1> USE DEF Tim!Init
<1>0. PICK list \in Tim!Leftovers : myt = Tim!Loaded(list) /\ myt_pos = Len(list)
  OBVIOUS
<1>1. list \in Seq(TimerKinds) /\ Len(list) <= TIMER_SIZE /\ Fresh(list)
  BY LeftoversFresh
<1>2. page.pc = "idle" /\ page \in [pc : PagePC, i : Nat, pos : Int]
      /\ scan.pc = "sleep" /\ scan \in [pc : ScanPC, i : Nat]
  BY DEF Tim!Idle, Tim!Asleep, PagePC, ScanPC
<1>3. TimerTypes
  <2>1. myt \in [Tim!Slot -> Timer] /\ myt_pos \in Int /\ myt_pos <= TIMER_SIZE
    BY <1>0, <1>1, Loads
  <2>2. QED
    BY <1>2, <2>1 DEF TimerTypes
<1>4. FreshInv
  BY <1>0, <1>1, Loads DEF FreshInv, InUse
<1>5. PinInv
  BY <1>2 DEF PinInv
<1>6. QED
  BY <1>3, <1>4, <1>5 DEF TimerInv

LEMMA TimerNext == TimerInv /\ [Tim!Next]_timerVars => TimerInv'
<1> SUFFICES ASSUME TimerInv, [Tim!Next]_timerVars PROVE TimerInv'
  OBVIOUS
<1>0. TimerTypes /\ FreshInv /\ PinInv
  BY DEF TimerInv
\* Steps that change none of what the invariant is about.
<1>1. ASSUME UNCHANGED << myt, myt_pos, pins, myt_running, scan, strayed, stored >>,
             page' \in [pc : PagePC, i : Nat, pos : Int],
             page' = page \/ (page.pc # "shift" /\ page'.pc # "shift")
      PROVE  TimerInv'
  BY <1>0, <1>1 DEF TimerInv, TimerTypes, FreshInv, PinInv, InUse
<1>2. CASE Tim!Clock \/ UNCHANGED timerVars
  <2>1. UNCHANGED << myt, myt_pos, pins, myt_running, scan, page, strayed, stored >>
    BY <1>2 DEF Tim!Clock, timerVars
  <2>2. QED
    BY <1>0, <1>1, <2>1 DEF TimerTypes
<1>3. CASE Tim!SaveErase
  <2>1. /\ page.pc = "erase" /\ stored' \in {NoKey, stored} /\ page' = [page EXCEPT !.pc = "set"]
        /\ UNCHANGED << myt, myt_pos, pins, myt_running, scan, strayed >>
    BY <1>3 DEF Tim!SaveErase
  <2>2. page' \in [pc : PagePC, i : Nat, pos : Int] /\ page'.pc = "set"
    BY <1>0, <2>1 DEF TimerTypes, PagePC
  <2>3. QED
    BY <1>0, <2>1, <2>2 DEF TimerInv, TimerTypes, FreshInv, PinInv, InUse
<1>4. CASE Tim!SaveSet
  <2>1. /\ page.pc = "set" /\ stored' \in {Tim!Kept, stored} /\ page' = Tim!Idle
        /\ UNCHANGED << myt, myt_pos, pins, myt_running, scan, strayed >>
    BY <1>4 DEF Tim!SaveSet
  <2>2. page' \in [pc : PagePC, i : Nat, pos : Int] /\ page'.pc = "idle"
    BY <2>1 DEF Tim!Idle, PagePC
  <2>3. Fresh(Tim!Kept)
    <3>1. ASSUME NEW m \in 1 .. Len(Tim!Kept), NEW n \in 1 .. Len(Tim!Kept), m < n
          PROVE  ~Tim!Within(Tim!Kept[m], Tim!Kept[n])
      <4>1. m - 1 \in Tim!Slot /\ n - 1 \in Tim!Slot /\ m - 1 < n - 1 /\ n - 1 < myt_pos /\ m - 1 < myt_pos
        BY <1>0, <3>1, KeptIs, TimerConstants, SlotsAre
      <4>2. InUse(m - 1) /\ InUse(n - 1)
        BY <2>1, <4>1 DEF InUse
      <4>3. Tim!Kept[m] = myt[m - 1].kind /\ Tim!Kept[n] = myt[n - 1].kind
        BY <1>0, KeptIs
      <4>4. QED
        BY <1>0, <4>1, <4>2, <4>3 DEF FreshInv
    <3>2. QED
      BY <3>1 DEF Fresh
  <2>4. Tim!Kept \in Seq(TimerKinds) /\ Len(Tim!Kept) <= TIMER_SIZE
    BY <1>0, KeptIs
  <2>5. (stored # NoKey => stored \in Seq(TimerKinds) /\ Len(stored) <= TIMER_SIZE /\ Fresh(stored))'
    <3>1. CASE stored' = Tim!Kept
      BY <2>3, <2>4, <3>1
    <3>2. CASE stored' = stored
      BY <1>0, <3>2 DEF FreshInv
    <3>3. QED
      BY <2>1, <3>1, <3>2
  <2>6. QED
    BY <1>0, <2>1, <2>2, <2>5 DEF TimerInv, TimerTypes, FreshInv, PinInv, InUse
<1>5. CASE Tim!time_timer_start
  <2>1. /\ ~myt_running /\ scan' = Tim!Asleep /\ myt_running' = TRUE
        /\ UNCHANGED << myt, myt_pos, pins, page, stored, strayed >>
    BY <1>5 DEF Tim!time_timer_start
  <2>2. scan' = scan
    BY <1>0, <2>1 DEF TimerTypes
  <2>3. QED
    BY <1>0, <2>1, <2>2 DEF TimerInv, TimerTypes, FreshInv, PinInv, InUse
<1>6. CASE Tim!time_timer_stop
  <2>1. /\ scan' = Tim!Asleep /\ myt_running' = FALSE /\ strayed' = (strayed \/ scan # Tim!Asleep)
        /\ UNCHANGED << myt, myt_pos, pins, page, stored >>
    BY <1>6 DEF Tim!time_timer_stop
  <2>2. strayed' \in BOOLEAN /\ scan' \in [pc : ScanPC, i : Nat]
    BY <2>1 DEF Tim!Asleep, ScanPC
  <2>3. PinInv'
    <3>1. ~strayed' => ~strayed /\ scan' = scan
      BY <2>1
    <3>2. \A s \in Tim!Slot : InUse(s)' <=> InUse(s)
      BY <2>1 DEF InUse
    <3>3. QED
      BY <1>0, <2>1, <3>1, <3>2 DEF PinInv
  <2>4. QED
    BY <1>0, <2>1, <2>2, <2>3 DEF TimerInv, TimerTypes, FreshInv, InUse
<1>7. ASSUME NEW pos \in Tim!Positions, Tim!Delete(pos) PROVE TimerInv'
  <2>1. pos \in Int
    BY TimerConstants DEF Tim!Positions
  <2>2. QED
    BY <1>7, <2>1, DeleteKeeps
<1>8. QED
  BY <1>2, <1>3, <1>4, <1>5, <1>6, <1>7, ScanLookKeeps, ScanSwitchKeeps, AddKeeps, ShiftKeeps,
     ResetKeepsTimers DEF Tim!Next

\* For any number of slots: what is stored of the timers is restored whole after a reset
\* at any step, because time_timer_exists refuses none of them; and a pin that is on has a
\* timer that is marked, unless a deletion or a stop met a turn of the task, or the page
\* deleted at a position that no timer has.  A timer written outside the array ends the
\* behaviour (time_timer_add, time_timer_del, time_timer_init).
THEOREM ApplicationTimersSound == MCSpec => []TimersSound
<1>1. MCInit => TimerInv
  BY TimerStarts DEF MCInit
<1>2. TimerInv /\ [MCNext]_<< part, timerVars, wsVars, settingsVars, updateVars >> => TimerInv'
  <2>1. [MCNext]_<< part, timerVars, wsVars, settingsVars, updateVars >> => [Tim!Next]_timerVars
    BY DEF MCNext
  <2>2. QED
    BY <2>1, TimerNext
<1>3. TimerInv => TimersSound
  <2> SUFFICES ASSUME TimerInv PROVE Tim!RestoresAll /\ Tim!PinsHaveTimers
    BY DEF TimersSound
  <2>1. Tim!RestoresAll
    BY Reloads DEF TimerInv, Tim!RestoresAll, Tim!Read
  <2>2. ASSUME ~strayed, page = Tim!Idle, scan = Tim!Asleep, NEW p \in pins
        PROVE  \E s \in 0 .. myt_pos - 1 : myt[s].running /\ myt[s].kind.gpio = p
    <3>1. scan.pc = "sleep"
      BY <2>2 DEF Tim!Asleep
    <3>2. PICK s \in Tim!Slot : InUse(s) /\ myt[s].running /\ myt[s].kind.gpio = p
      BY <2>2, <3>1 DEF TimerInv, PinInv
    <3>3. s \in 0 .. myt_pos - 1
      BY <3>2, TimerConstants, SlotsAre DEF InUse, TimerInv, TimerTypes
    <3>4. QED
      BY <3>2, <3>3
  <2>3. QED
    BY <2>1, <2>2 DEF Tim!PinsHaveTimers
<1>4. QED
  BY <1>1, <1>2, <1>3, PTL DEF MCSpec

-----------------------------------------------------------------------------
(***************************************************************************)
(* Settings.  Who writes alone is followed from the name to the password; two who write *)
(* the same keys at once have torn them.  The size of the list of networks only shrinks.  *)
(***************************************************************************)

WriterPC == {"rest", "ssid", "pwd", "commit", "restart", "scan"}
Parts == [ssid : Int, pwd : Int]

SettingsTypes ==
    /\ nvs \in [Set!Keys -> Parts] /\ running \in Parts
    /\ writer \in [Set!Tasks -> [pc : WriterPC, key : Set!Keys, req : Nat]]
    /\ changes \in Nat /\ torn \subseteq Set!Keys /\ apart \in BOOLEAN
    /\ bootStep \in {"ap", "sta", "done"}
    /\ scan_running \in BOOLEAN /\ twoScan \in BOOLEAN /\ scanning \subseteq Set!Tasks
    /\ number \in Nat /\ count \in Nat /\ records \in Nat /\ fewest \in Nat

Writing(t, k) == writer[t].key = k /\ writer[t].pc \in {"ssid", "pwd", "commit"}

\* Of the keys that nothing has parted.
WholeInv ==
    \A k \in Set!Keys : k \notin torn =>
        /\ \A t, u \in Set!Tasks : Writing(t, k) /\ Writing(u, k) => t = u
        /\ \A t \in Set!Tasks : writer[t].key = k /\ writer[t].pc = "pwd" => nvs[k].ssid = writer[t].req
        /\ nvs[k].ssid # nvs[k].pwd => \E t \in Set!Tasks : writer[t].key = k /\ writer[t].pc = "pwd"

AccessInv == bootStep # "ap" /\ ~apart => running = Set!Effective(nvs["ap"])

ScanInv ==
    /\ \A t \in Set!Tasks : writer[t].pc = "scan" => t \in scanning
    /\ \A t \in scanning : writer[t].pc \in {"rest", "scan"}
    /\ ~twoScan =>
          /\ \A t, u \in scanning : t = u
          /\ scan_running <=> \E t \in Set!Tasks : writer[t].pc = "scan"
    /\ number = fewest
    /\ count = 0 \/ records = fewest

SettingsInv == SettingsTypes /\ WholeInv /\ AccessInv /\ ScanInv

LEMMA SettingsStarts == Set!SettingsAssumption /\ Set!Init => SettingsInv
<1> SUFFICES ASSUME Set!SettingsAssumption, Set!Init PROVE SettingsInv
  OBVIOUS
<1> USE DEF Set!SettingsAssumption, Set!Init
<1>0. nvs \in [Set!Keys -> {Set!Defaults, Set!Earlier}]
  OBVIOUS
<1>1. SettingsTypes
  <2>1. Set!Defaults \in Parts /\ Set!Earlier \in Parts
    BY DEF Parts, Set!Defaults, Set!Earlier, Set!Default
  <2>2. Set!Resting \in [pc : WriterPC, key : Set!Keys, req : Nat]
    BY DEF WriterPC, Set!Resting, Set!Keys, Set!Default
  <2>3. QED
    BY <1>0, <2>1, <2>2 DEF SettingsTypes
<1>2. WholeInv
  BY <1>0 DEF WholeInv, Writing, Set!Defaults, Set!Earlier, Set!Default, Set!Resting
<1>3. AccessInv /\ ScanInv
  BY DEF AccessInv, ScanInv, Set!Resting
<1>4. QED
  BY <1>1, <1>2, <1>3 DEF SettingsInv

\* A step of one task changes nothing of the other.
LEMMA StepOf ==
  ASSUME SettingsTypes, NEW t \in Set!Tasks, NEW pc \in WriterPC, Set!Step(t, pc)
  PROVE  /\ writer' \in [Set!Tasks -> [pc : WriterPC, key : Set!Keys, req : Nat]]
         /\ writer'[t].pc = pc /\ writer'[t].key = writer[t].key /\ writer'[t].req = writer[t].req
         /\ \A u \in Set!Tasks : u # t => writer'[u] = writer[u]
BY DEF SettingsTypes, Set!Step

LEMMA SettingsTypesNext ==
  Set!SettingsAssumption /\ SettingsInv /\ [Set!Next]_settingsVars => SettingsTypes'
<1> SUFFICES ASSUME Set!SettingsAssumption, SettingsInv, [Set!Next]_settingsVars
             PROVE  SettingsTypes'
  OBVIOUS
<1>0. SettingsTypes
  BY DEF SettingsInv
<1> USE <1>0
<1>1. CASE UNCHANGED settingsVars
  BY <1>1 DEF settingsVars, SettingsTypes
<1>2. ASSUME NEW o \in BOOLEAN, Set!t3ch_wifi_start_ap(o) \/ Set!t3ch_wifi_start_sta(o)
      PROVE  SettingsTypes'
  <2>1. /\ UNCHANGED << nvs, writer, changes, torn, Set!scanVars >>
        /\ bootStep' \in {"sta", "done"} /\ (apart' \in BOOLEAN \/ apart' = apart)
    BY <1>2 DEF Set!t3ch_wifi_start_ap, Set!t3ch_wifi_start_sta
  <2>2. running' \in {nvs["ap"], Set!Defaults, running}
    BY <1>2 DEF Set!t3ch_wifi_start_ap, Set!t3ch_wifi_start_sta, Set!esp_bridge_wifi_set, Set!Effective
  <2>3. nvs["ap"] \in Parts /\ Set!Defaults \in Parts
    BY DEF SettingsTypes, Set!Keys, Parts, Set!Defaults, Set!Default
  <2>4. QED
    BY <2>1, <2>2, <2>3 DEF SettingsTypes, Set!scanVars
<1>3. CASE Set!GotIp
  BY <1>3 DEF SettingsTypes, Set!GotIp, Set!scanVars, Set!settings
<1>4. CASE Set!Restart
  <2>1. Set!Defaults \in Parts
    BY DEF Parts, Set!Defaults, Set!Default
  <2>2. Set!Resting \in [pc : WriterPC, key : Set!Keys, req : Nat]
    BY DEF WriterPC, Set!Resting, Set!Keys, Set!Default
  <2>3. torn' \subseteq Set!Keys
    BY <1>4 DEF SettingsTypes, Set!Restart
  <2>4. QED
    BY <1>4, <2>1, <2>2, <2>3 DEF SettingsTypes, Set!Restart, Set!SettingsAssumption
<1>5. ASSUME NEW t \in Set!Tasks, NEW k \in Set!Keys, Set!Asks(t, k)
      PROVE  SettingsTypes'
  BY <1>5 DEF SettingsTypes, Set!Asks, Set!scanVars, WriterPC
<1>6. ASSUME NEW t \in Set!Tasks, Set!SetSsid(t)
      PROVE  SettingsTypes'
  <2>1. writer' \in [Set!Tasks -> [pc : WriterPC, key : Set!Keys, req : Nat]]
    BY <1>6, StepOf DEF Set!SetSsid, WriterPC
  <2>2. nvs' \in [Set!Keys -> Parts]
    BY <1>6 DEF Set!SetSsid, Set!Store, SettingsTypes, Parts
  <2>3. QED
    BY <1>6, <2>1, <2>2 DEF SettingsTypes, Set!SetSsid, Set!scanVars
<1>7. ASSUME NEW t \in Set!Tasks, Set!SetPwd(t)
      PROVE  SettingsTypes'
  <2>1. writer' \in [Set!Tasks -> [pc : WriterPC, key : Set!Keys, req : Nat]]
    BY <1>7, StepOf DEF Set!SetPwd, WriterPC
  <2>2. nvs' \in [Set!Keys -> Parts]
    BY <1>7 DEF Set!SetPwd, Set!Store, SettingsTypes, Parts
  <2>3. QED
    BY <1>7, <2>1, <2>2 DEF SettingsTypes, Set!SetPwd, Set!scanVars
<1>8. ASSUME NEW t \in Set!Tasks, Set!Fails(t)
      PROVE  SettingsTypes'
  <2>1. Set!AfterError(t) \in WriterPC
    BY DEF Set!AfterError, Set!NextPc, WriterPC
  <2>2. writer' \in [Set!Tasks -> [pc : WriterPC, key : Set!Keys, req : Nat]]
    BY <1>8, <2>1, StepOf DEF Set!Fails
  <2>3. torn' \subseteq Set!Keys /\ apart' \in BOOLEAN
    BY <1>8 DEF Set!Fails, SettingsTypes
  <2>4. QED
    BY <1>8, <2>2, <2>3 DEF SettingsTypes, Set!Fails, Set!scanVars
<1>9. ASSUME NEW t \in Set!Tasks, Set!Commit(t)
      PROVE  SettingsTypes'
  <2>1. PICK pc \in {"rest", "restart"} : Set!Step(t, pc)
    BY <1>9 DEF Set!Commit
  <2>2. writer' \in [Set!Tasks -> [pc : WriterPC, key : Set!Keys, req : Nat]]
    BY <2>1, StepOf DEF WriterPC
  <2>3. running' \in Parts /\ apart' \in BOOLEAN
    <3>1. CASE UNCHANGED << running, apart >>
      BY <3>1 DEF SettingsTypes
    <3>2. CASE t # "console" /\ writer[t].key = "ap"
      <4>1. /\ running' = [ssid |-> writer[t].req, pwd |-> writer[t].req]
            /\ apart' = (nvs["ap"] # [ssid |-> writer[t].req, pwd |-> writer[t].req] \/ Set!OthersWrite(t, "ap"))
        BY <1>9, <3>2, Zenon DEF Set!Commit, Set!esp_bridge_wifi_set, Set!Tasks
      <4>2. writer[t].req \in Int
        BY DEF SettingsTypes
      <4>3. QED
        BY <4>1, <4>2 DEF Parts
    <3>3. CASE ~(t # "console" /\ writer[t].key = "ap")
      BY <1>9, <3>1, <3>3 DEF Set!Commit
    <3>4. QED
      BY <3>2, <3>3
  <2>4. QED
    BY <1>9, <2>2, <2>3 DEF SettingsTypes, Set!Commit, Set!scanVars
<1>10. ASSUME NEW t \in Set!Tasks, Set!ScanChecks(t)
       PROVE  SettingsTypes'
  BY <1>10 DEF SettingsTypes, Set!ScanChecks, Set!settings
<1>11. ASSUME NEW t \in Set!Tasks, Set!ScanStarts(t)
       PROVE  SettingsTypes'
  <2>1. writer' \in [Set!Tasks -> [pc : WriterPC, key : Set!Keys, req : Nat]]
    BY <1>11, StepOf DEF Set!ScanStarts, WriterPC
  <2>2. QED
    BY <1>11, <2>1 DEF SettingsTypes, Set!ScanStarts
<1>12. ASSUME NEW t \in Set!Tasks, NEW n \in Found, Set!ScanEnds(t, n)
       PROVE  SettingsTypes'
  <2>1. writer' \in [Set!Tasks -> [pc : WriterPC, key : Set!Keys, req : Nat]]
    BY <1>12, StepOf DEF Set!ScanEnds, WriterPC
  <2>2. n \in Nat
    BY DEF Set!SettingsAssumption
  <2>3. QED
    BY <1>12, <2>1, <2>2 DEF SettingsTypes, Set!ScanEnds, Set!Less, Set!Filled
<1>13. QED
  BY <1>1, <1>2, <1>3, <1>4, <1>5, <1>6, <1>7, <1>8, <1>9, <1>10, <1>11, <1>12 DEF Set!Next, Set!Task

LEMMA WholeNext == SettingsInv /\ [Set!Next]_settingsVars => WholeInv'
<1> SUFFICES ASSUME SettingsInv, [Set!Next]_settingsVars PROVE WholeInv'
  OBVIOUS
<1>0. SettingsTypes /\ WholeInv /\ ScanInv
  BY DEF SettingsInv
<1> USE <1>0
<1> DEFINE Same == UNCHANGED << nvs, writer, torn >>
<1>1. CASE Same
  BY <1>1 DEF WholeInv, Writing
<1>2. CASE Set!Restart
  <2>1. \A k \in Set!Keys : k \notin torn' =>
            k \notin torn /\ \A t \in Set!Tasks : ~(writer[t].key = k /\ writer[t].pc = "pwd")
    BY <1>2 DEF Set!Restart
  <2>2. nvs' = nvs /\ \A t \in Set!Tasks : writer'[t].pc = "rest"
    BY <1>2 DEF Set!Restart, Set!Resting
  <2>3. QED
    BY <2>1, <2>2 DEF WholeInv, Writing
<1>3. ASSUME NEW t \in Set!Tasks, NEW key \in Set!Keys, Set!Asks(t, key)
      PROVE  WholeInv'
  <2>1. /\ nvs' = nvs /\ writer[t].pc = "rest" /\ \A u \in Set!Tasks : u # t => writer'[u] = writer[u]
        /\ writer'[t].pc = "ssid" /\ writer'[t].key = key
        /\ torn \subseteq torn'
        /\ key \notin torn' => \A u \in Set!Tasks : u # t => ~Writing(u, key)
    BY <1>3 DEF Set!Asks, Set!Rests, Set!OthersWrite, SettingsTypes, Writing
  <2>2. QED
    BY <2>1 DEF WholeInv, Writing
<1>4. ASSUME NEW t \in Set!Tasks, Set!SetSsid(t)
      PROVE  WholeInv'
  <2>1. /\ writer'[t].pc = "pwd" /\ writer'[t].key = writer[t].key /\ writer'[t].req = writer[t].req
        /\ \A u \in Set!Tasks : u # t => writer'[u] = writer[u]
    BY <1>4, StepOf DEF Set!SetSsid, WriterPC
  <2>2. /\ writer[t].pc = "ssid" /\ torn' = torn /\ nvs'[writer[t].key].ssid = writer[t].req
        /\ \A j \in Set!Keys : j # writer[t].key => nvs'[j] = nvs[j]
    BY <1>4 DEF Set!SetSsid, Set!Store, SettingsTypes, Parts
  <2>3. QED
    BY <2>1, <2>2 DEF WholeInv, Writing
<1>5. ASSUME NEW t \in Set!Tasks, Set!SetPwd(t)
      PROVE  WholeInv'
  <2> DEFINE j == writer[t].key
  <2>1. /\ writer'[t].pc = "commit" /\ writer'[t].key = j /\ writer'[t].req = writer[t].req
        /\ \A u \in Set!Tasks : u # t => writer'[u] = writer[u]
    BY <1>5, StepOf DEF Set!SetPwd, WriterPC
  <2>2. /\ writer[t].pc = "pwd" /\ nvs'[j].pwd = writer[t].req /\ nvs'[j].ssid = nvs[j].ssid
        /\ \A i \in Set!Keys : i # j => nvs'[i] = nvs[i]
    BY <1>5 DEF Set!SetPwd, Set!Store, SettingsTypes, Parts
  <2>3. \/ torn' = torn
        \/ /\ torn' = torn \ {j} /\ nvs[j].ssid = writer[t].req
           /\ \A u \in Set!Tasks : u # t => ~Writing(u, j)
    BY <1>5 DEF Set!SetPwd, Set!OthersWrite, Writing
  <2>4. QED
    BY <2>1, <2>2, <2>3 DEF WholeInv, Writing, SettingsTypes
<1>6. ASSUME NEW t \in Set!Tasks, Set!Fails(t)
      PROVE  WholeInv'
  <2>1. Set!AfterError(t) \in WriterPC
    BY DEF Set!AfterError, Set!NextPc, WriterPC
  <2>2. /\ writer'[t].pc = Set!AfterError(t) /\ writer'[t].key = writer[t].key
        /\ writer'[t].req = writer[t].req /\ \A u \in Set!Tasks : u # t => writer'[u] = writer[u]
    BY <1>6, <2>1, StepOf DEF Set!Fails
  <2>3. /\ writer[t].pc \in {"ssid", "pwd", "commit"} /\ nvs' = nvs /\ torn \subseteq torn'
        /\ writer[t].pc = "pwd" => writer[t].key \in torn'
        /\ t = "console" /\ writer[t].pc = "ssid" => writer[t].key \in torn'
    BY <1>6 DEF Set!Fails
  <2>4. t = "console" \/ Set!AfterError(t) = "rest"
    BY DEF Set!AfterError, Set!Tasks
  <2>5. Set!AfterError(t) \in {"rest", "commit"} \/ (t = "console" /\ writer[t].pc = "ssid")
    BY <2>3, <2>4 DEF Set!AfterError, Set!NextPc
  <2>6. QED
    BY <2>2, <2>3, <2>5 DEF WholeInv, Writing
<1>7. ASSUME NEW t \in Set!Tasks, Set!Commit(t)
      PROVE  WholeInv'
  <2>1. PICK pc \in {"rest", "restart"} : Set!Step(t, pc)
    BY <1>7 DEF Set!Commit
  <2>2. /\ writer'[t].pc = pc /\ writer'[t].key = writer[t].key
        /\ \A u \in Set!Tasks : u # t => writer'[u] = writer[u]
    BY <2>1, StepOf DEF WriterPC
  <2>3. writer[t].pc = "commit" /\ nvs' = nvs /\ torn' = torn
    BY <1>7 DEF Set!Commit
  <2>4. QED
    BY <2>2, <2>3 DEF WholeInv, Writing
<1>8. ASSUME NEW t \in Set!Tasks, Set!ScanStarts(t) \/ \E n \in Found : Set!ScanEnds(t, n)
      PROVE  WholeInv'
  <2>1. PICK pc \in {"rest", "scan"} : Set!Step(t, pc)
    BY <1>8 DEF Set!ScanStarts, Set!ScanEnds
  <2>2. /\ writer'[t].pc = pc /\ writer'[t].key = writer[t].key
        /\ \A u \in Set!Tasks : u # t => writer'[u] = writer[u]
    BY <2>1, StepOf DEF WriterPC
  <2>3. writer[t].pc \in {"rest", "scan"} /\ nvs' = nvs /\ torn' = torn
    BY <1>8 DEF Set!ScanStarts, Set!ScanEnds
  <2>4. QED
    BY <2>2, <2>3 DEF WholeInv, Writing
<1>9. ASSUME NEW t \in Set!Tasks, Set!ScanChecks(t)
      PROVE  Same
  BY <1>9, Zenon DEF Set!ScanChecks, Set!settings
<1>10. CASE Set!GotIp
  BY <1>1, <1>10 DEF Set!GotIp, Set!settings
<1>11. ASSUME NEW o \in BOOLEAN, Set!t3ch_wifi_start_ap(o) \/ Set!t3ch_wifi_start_sta(o)
       PROVE  Same
  BY <1>11, Zenon DEF Set!t3ch_wifi_start_ap, Set!t3ch_wifi_start_sta
<1>12. CASE UNCHANGED settingsVars
  BY <1>1, <1>12, Zenon DEF settingsVars
<1>13. Same \/ WholeInv'
  <2>1. Set!Next \/ UNCHANGED settingsVars
    OBVIOUS
  <2>2. QED
    BY <1>2, <1>3, <1>4, <1>5, <1>6, <1>7, <1>8, <1>9, <1>10, <1>11, <1>12, <2>1, Zenon DEF Set!Next, Set!Task
<1>14. QED
  BY <1>1, <1>13 DEF WholeInv
LEMMA SetCardinality == ASSUME NEW S PROVE Set!Cardinality(S) = Cardinality(S)
BY DEF Set!Cardinality, Cardinality

LEMMA AccessNext == SettingsInv /\ [Set!Next]_settingsVars => AccessInv'
<1> SUFFICES ASSUME SettingsInv, [Set!Next]_settingsVars PROVE AccessInv'
  OBVIOUS
<1>0. SettingsTypes /\ AccessInv
  BY DEF SettingsInv
<1> USE <1>0
<1> DEFINE Same == nvs'["ap"] = nvs["ap"] /\ (~apart' => ~apart) /\ bootStep' = bootStep /\ running' = running
<1>1. CASE Same \/ bootStep' = "ap" \/ apart'
  BY <1>1 DEF AccessInv, Set!Effective, Set!Defaults, SettingsTypes
<1>2. ASSUME NEW o \in BOOLEAN, Set!t3ch_wifi_start_ap(o)
      PROVE  AccessInv'
  BY <1>2 DEF AccessInv, Set!t3ch_wifi_start_ap, Set!esp_bridge_wifi_set, Set!Effective, Set!Defaults
<1>3. ASSUME NEW o \in BOOLEAN, Set!t3ch_wifi_start_sta(o)
      PROVE  AccessInv'
  BY <1>3 DEF AccessInv, Set!t3ch_wifi_start_sta, Set!Effective, Set!Defaults
<1>4. CASE Set!GotIp
  BY <1>1, <1>4 DEF Set!GotIp, Set!settings
<1>5. CASE Set!Restart
  BY <1>1, <1>5 DEF Set!Restart
<1>6. ASSUME NEW t \in Set!Tasks, NEW k \in Set!Keys, Set!Asks(t, k)
      PROVE  AccessInv'
  BY <1>1, <1>6 DEF Set!Asks
<1>7. ASSUME NEW t \in Set!Tasks, Set!SetSsid(t) \/ Set!SetPwd(t)
      PROVE  AccessInv'
  <2>1. writer[t].key = "ap" => apart'
    BY <1>7 DEF Set!SetSsid, Set!SetPwd
  <2>2. writer[t].key # "ap" => Same
    BY <1>7 DEF Set!SetSsid, Set!SetPwd, Set!Store, SettingsTypes, Set!Keys
  <2>3. QED
    BY <1>1, <2>1, <2>2
<1>8. ASSUME NEW t \in Set!Tasks, Set!Fails(t)
      PROVE  AccessInv'
  BY <1>1, <1>8 DEF Set!Fails
<1>9. ASSUME NEW t \in Set!Tasks, Set!Commit(t)
      PROVE  AccessInv'
  <2>1. nvs' = nvs /\ bootStep' = bootStep
    BY <1>9 DEF Set!Commit
  <2>2. CASE t # "console" /\ writer[t].key = "ap"
    <3>1. /\ running' = [ssid |-> writer[t].req, pwd |-> writer[t].req]
          /\ ~apart' => nvs["ap"] = [ssid |-> writer[t].req, pwd |-> writer[t].req]
      BY <1>9, <2>2 DEF Set!Commit, Set!esp_bridge_wifi_set
    <3>2. Set!Effective([ssid |-> writer[t].req, pwd |-> writer[t].req])
             = [ssid |-> writer[t].req, pwd |-> writer[t].req]
      BY DEF Set!Effective, Set!Defaults
    <3>3. CASE apart'
      BY <1>1, <3>3
    <3>4. CASE ~apart'
      <4>1. running' = nvs["ap"] /\ Set!Effective(nvs["ap"]) = nvs["ap"]
        BY <3>1, <3>2, <3>4
      <4>2. QED
        BY <2>1, <4>1 DEF AccessInv, Set!Effective, Set!Defaults
    <3>5. QED
      BY <3>3, <3>4
  <2>3. CASE ~(t # "console" /\ writer[t].key = "ap")
    BY <1>1, <1>9, <2>1, <2>3 DEF Set!Commit
  <2>4. QED
    BY <2>2, <2>3
<1>10. ASSUME NEW t \in Set!Tasks,
              Set!ScanChecks(t) \/ Set!ScanStarts(t) \/ \E n \in Found : Set!ScanEnds(t, n)
       PROVE  AccessInv'
  BY <1>1, <1>10 DEF Set!ScanChecks, Set!ScanStarts, Set!ScanEnds, Set!settings
<1>11. CASE UNCHANGED settingsVars
  BY <1>1, <1>11 DEF settingsVars
<1>12. QED
  BY <1>2, <1>3, <1>4, <1>5, <1>6, <1>7, <1>8, <1>9, <1>10, <1>11, Zenon DEF Set!Next, Set!Task

LEMMA ScanNext == Set!SettingsAssumption /\ SettingsInv /\ [Set!Next]_settingsVars => ScanInv'
<1> SUFFICES ASSUME Set!SettingsAssumption, SettingsInv, [Set!Next]_settingsVars PROVE ScanInv'
  OBVIOUS
<1>0. SettingsTypes /\ ScanInv
  BY DEF SettingsInv
<1> USE <1>0
\* Steps of a task that writes, or of none.
<1> DEFINE Apart(t) ==
              /\ UNCHANGED << scanning, scan_running, twoScan, number, fewest, count, records >>
              /\ writer[t].pc # "scan" /\ (writer'[t].pc # "scan")
              /\ t \in scanning => writer'[t].pc = "rest"
              /\ \A u \in Set!Tasks : u # t => writer'[u] = writer[u]
<1>1. ASSUME NEW t \in Set!Tasks, Apart(t)
      PROVE  ScanInv'
  <2>1. \A u \in Set!Tasks : writer'[u].pc = "scan" <=> writer[u].pc = "scan"
    BY <1>1
  <2>2. \A u \in scanning : writer'[u].pc \in {"rest", "scan"}
    BY <1>1 DEF ScanInv, SettingsTypes
  <2>3. QED
    BY <1>1, <2>1, <2>2 DEF ScanInv
<1>2. CASE UNCHANGED << scanning, scan_running, twoScan, number, fewest, count, records, writer >>
  BY <1>2 DEF ScanInv
<1>3. CASE Set!Restart
  BY <1>3 DEF ScanInv, Set!Restart, Set!Resting
<1>4. ASSUME NEW t \in Set!Tasks, NEW k \in Set!Keys, Set!Asks(t, k)
      PROVE  ScanInv'
  BY <1>1, <1>4 DEF Set!Asks, Set!Rests, Set!scanVars, SettingsTypes
<1>5. ASSUME NEW t \in Set!Tasks, NEW pc \in {"rest", "pwd", "commit", "restart"}, Set!Step(t, pc),
             writer[t].pc \in {"ssid", "pwd", "commit"}, UNCHANGED Set!scanVars
      PROVE  ScanInv'
  <2>1. writer'[t].pc = pc /\ \A u \in Set!Tasks : u # t => writer'[u] = writer[u]
    BY <1>5, StepOf DEF WriterPC
  <2>2. QED
    BY <1>1, <1>5, <2>1 DEF Set!scanVars, ScanInv
<1>6. ASSUME NEW t \in Set!Tasks, Set!SetSsid(t) \/ Set!SetPwd(t) \/ Set!Fails(t) \/ Set!Commit(t)
      PROVE  ScanInv'
  <2>1. CASE Set!SetSsid(t)
    BY <1>5, <2>1 DEF Set!SetSsid
  <2>2. CASE Set!SetPwd(t)
    BY <1>5, <2>2 DEF Set!SetPwd
  <2>3. CASE Set!Fails(t)
    <3>1. Set!AfterError(t) \in {"rest", "pwd", "commit"}
      BY DEF Set!AfterError, Set!NextPc
    <3>2. QED
      BY <1>5, <2>3, <3>1 DEF Set!Fails
  <2>4. CASE Set!Commit(t)
    <3>1. PICK pc \in {"rest", "restart"} : Set!Step(t, pc)
      BY <2>4 DEF Set!Commit
    <3>2. QED
      BY <1>5, <2>4, <3>1 DEF Set!Commit
  <2>5. QED
    BY <1>6, <2>1, <2>2, <2>3, <2>4
<1>7. ASSUME NEW t \in Set!Tasks, Set!ScanChecks(t)
      PROVE  ScanInv'
  <2>1. /\ writer[t].pc = "rest" /\ t \notin scanning /\ ~scan_running
        /\ scanning' = scanning \cup {t} /\ (~twoScan' => ~twoScan /\ scanning = {})
        /\ UNCHANGED << writer, scan_running, number, fewest, count, records >>
    BY <1>7 DEF Set!ScanChecks, Set!Rests, Set!settings
  <2>2. QED
    BY <2>1 DEF ScanInv
<1>8. ASSUME NEW t \in Set!Tasks, Set!ScanStarts(t)
      PROVE  ScanInv'
  <2>1. writer'[t].pc = "scan" /\ \A u \in Set!Tasks : u # t => writer'[u] = writer[u]
    BY <1>8, StepOf DEF Set!ScanStarts, WriterPC
  <2>2. QED
    <3>1. /\ t \in scanning /\ count' = 0 /\ scan_running'
          /\ UNCHANGED << scanning, twoScan, number, fewest >>
      BY <1>8 DEF Set!ScanStarts
    <3>2. \A u \in Set!Tasks : writer'[u].pc = "scan" => u \in scanning
      BY <2>1, <3>1 DEF ScanInv
    <3>3. \A u \in scanning : writer'[u].pc \in {"rest", "scan"}
      BY <2>1, <3>1 DEF ScanInv, SettingsTypes
    <3>4. QED
      BY <2>1, <3>1, <3>2, <3>3 DEF ScanInv
<1>9. ASSUME NEW t \in Set!Tasks, NEW n \in Found, Set!ScanEnds(t, n)
      PROVE  ScanInv'
  <2>1. writer'[t].pc = "rest" /\ \A u \in Set!Tasks : u # t => writer'[u] = writer[u]
    BY <1>9, StepOf DEF Set!ScanEnds, WriterPC
  <2>2. /\ t \in scanning /\ writer[t].pc = "scan" /\ scanning' = scanning \ {t} /\ ~scan_running'
        /\ number' = Set!Less(n, number) /\ records' = number' /\ fewest' = Set!Less(n, fewest)
        /\ twoScan' = twoScan
    BY <1>9 DEF Set!ScanEnds, Set!Filled
  <2>3. \A u \in scanning' : u \in Set!Tasks /\ u # t /\ u \in scanning
    BY <2>2 DEF SettingsTypes
  <2>4. ~twoScan => \A u \in Set!Tasks : writer'[u].pc # "scan"
    BY <2>1, <2>2 DEF ScanInv
  <2>5. QED
    BY <2>1, <2>2, <2>3, <2>4 DEF ScanInv
<1>10. ASSUME NEW o \in BOOLEAN, Set!t3ch_wifi_start_ap(o) \/ Set!t3ch_wifi_start_sta(o)
       PROVE  ScanInv'
  BY <1>2, <1>10 DEF Set!t3ch_wifi_start_ap, Set!t3ch_wifi_start_sta, Set!scanVars
<1>11. CASE Set!GotIp
  BY <1>2, <1>11 DEF Set!GotIp, Set!scanVars, Set!settings
<1>12. CASE UNCHANGED settingsVars
  BY <1>2, <1>12 DEF settingsVars
<1>13. QED
  BY <1>3, <1>4, <1>6, <1>7, <1>8, <1>9, <1>10, <1>11, <1>12, Zenon DEF Set!Next, Set!Task

\* Stored names and passwords belong together and the access point has the stored ones,
\* with the exceptions that SettingsMatch names, whatever the page, the console, errors
\* and resets do (t3ch_wifi_update_ap, do_cmd_ap); and unless two tasks saw the flag clear
\* at once, it says whether one scans, and the list is blank past the fewest networks
\* that were found (t3ch_wifi_scan_start).
THEOREM ApplicationSettingsSound == MCSpec => []SettingsSound
<1>1. MCInit => SettingsInv
  BY SettingsStarts, ApplicationAssumption DEF MCInit
<1>2. SettingsInv /\ [MCNext]_<< part, timerVars, wsVars, settingsVars, updateVars >> => SettingsInv'
  <2>1. [MCNext]_<< part, timerVars, wsVars, settingsVars, updateVars >> => [Set!Next]_settingsVars
    BY DEF MCNext
  <2>2. QED
    BY <2>1, SettingsTypesNext, WholeNext, AccessNext, ScanNext, ApplicationAssumption DEF SettingsInv
<1>3. SettingsInv => SettingsSound
  <2> SUFFICES ASSUME SettingsInv PROVE Set!SettingsMatch /\ Set!ScansApart
    BY DEF SettingsSound
  <2>1. Set!SettingsMatch
    BY DEF SettingsInv, WholeInv, AccessInv, Set!SettingsMatch
  <2>2. ASSUME ~twoScan PROVE Set!Cardinality(scanning) <= 1
    <3>1. CASE scanning = {}
      BY <3>1, FS_EmptySet, SetCardinality
    <3>2. CASE scanning # {}
      <4>1. PICK t : t \in scanning
        BY <3>2
      <4>2. scanning = {t}
        BY <2>2, <4>1 DEF SettingsInv, ScanInv
      <4>3. QED
        BY <4>2, FS_Singleton, SetCardinality
    <3>3. QED
      BY <3>1, <3>2
  <2>3. ASSUME NEW i \in DOMAIN Set!t3ch_wifi_scan_gen
        PROVE  Set!t3ch_wifi_scan_gen[i] = "blank" <=> i > fewest
    <3>1. i \in 1 .. Set!Less(count, MaxScan) /\ MaxScan \in Nat
      BY ApplicationAssumption DEF Set!t3ch_wifi_scan_gen, Set!SettingsAssumption
    <3>2. count # 0 /\ records = fewest /\ fewest \in Nat /\ i \in Nat
      BY <3>1 DEF SettingsInv, ScanInv, SettingsTypes, Set!Less
    <3>3. Set!t3ch_wifi_scan_gen[i] = IF i <= records THEN "network" ELSE "blank"
      BY <3>1 DEF Set!t3ch_wifi_scan_gen
    <3>4. QED
      BY <3>2, <3>3
  <2>4. Set!ScansApart
    BY <2>2, <2>3 DEF SettingsInv, ScanInv, Set!ScansApart
  <2>5. QED
    BY <2>1, <2>4
<1>4. QED
  BY <1>1, <1>2, <1>3, PTL DEF MCSpec
=============================================================================
