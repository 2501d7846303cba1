------------------------ MODULE ReferenceDataProofs ------------------------
(***************************************************************************)
(* A start has the files of one push, by their dates, however pushes and   *)
(* starts overlap and wherever pushes break off, for every number of days, *)
(* pushes and starts, every source and every order in which source files   *)
(* arrive.  A push has a version: the four dates of its files.             *)
(*                                                                         *)
(* The argument: versions do not go back in any of the four dates, and     *)
(* because a push clears all directories before its first put, the files   *)
(* that are there at any time are of one version.  A start finds its four  *)
(* files before it opens the first, so that the dates it has found are     *)
(* none of them later than those of the version w that is there when it    *)
(* opens the first.  A file that it opens later is of a version that is    *)
(* not before w, and of a date that is not after that of w: of w's date.   *)
(***************************************************************************)
EXTENDS ReferenceData, TLAPS

PushIsRecord ==
    push = [op |-> push.op, step |-> push.step, day |-> push.day, dates |-> push.dates,
            files |-> push.files, ended |-> push.ended, at |-> push.at]

StartIsRecord ==
    start = [op |-> start.op, step |-> start.step, day |-> start.day,
             data |-> start.data, dates |-> start.dates, opened |-> start.opened,
             overlaps |-> start.overlaps, monitored |-> start.monitored,
             indices |-> start.indices]

\* Four dates, of which some may be missing
MaybeDates == [Steps -> 0 .. LastDay]

\* What the argument needs of the types
Shape ==
    /\ today \in Days
    /\ directory = [k \in Steps |-> directory[k]]
    /\ PushIsRecord
    /\ push.op \in {"idle", "clear", "put", "putting"}
    /\ push.step \in Steps
    /\ push.dates \in MaybeDates
    /\ StartIsRecord
    /\ start.op \in {"idle", "find", "load", "select", "running", "failed"}
    /\ start.step \in Steps
    /\ start.dates \in MaybeDates /\ start.opened \in MaybeDates

\* The order of versions; uploads holds those that have been pushed.
Below(v, w) == \A k \in Steps : v[k] <= w[k]

\* Versions do not go back: that of the latest push is the last, and none is
\* ahead of the source files.
VersionsGrow ==
    /\ newest \in [Steps -> Days] /\ \A k \in Steps : newest[k] <= today
    /\ uploads \subseteq [Steps -> Days]
    /\ \A v \in uploads : Below(v, push.dates)
    /\ Below(push.dates, newest)
    /\ push.op # "idle" => push.dates \in uploads

\* The files that are there are of version v.
Holds(v) == \A k \in Steps : \A f \in directory[k] : f.date = v[k]

FilesOfOneVersion ==
    (\E v \in uploads : Holds(v)) \/ \A k \in Steps : directory[k] = {}

\* What a push has cleared stays empty until all is cleared, and then only its
\* own files are there.
PushReplacesAll ==
    /\ push.op = "clear" => \A k \in Steps : k < push.step => directory[k] = {}
    /\ push.op \in {"put", "putting"} => Holds(push.dates)

\* How far a start has come with the files it has found, and that it has found
\* nothing newer than version v
Found(k) == start.op = "load" \/ (start.op = "find" /\ k < start.step)
FoundBelow(v) == \A k \in Steps : Found(k) => start.dates[k] <= v[k]

\* What has been found is not newer than what is there.
FoundIsThere ==
    (\E k \in Steps : Found(k)) => \E v \in uploads : Holds(v) /\ FoundBelow(v)

\* The files opened so far are of version w: those before step k.
OpenedOf(w, k) == \A j \in Steps : j < k => start.dates[j] = w[j] /\ start.opened[j] = w[j]

\* From the first file opened on, the files opened are of one version, which
\* is not before those found and not after that which is there.
OpenedOfOneVersion ==
    /\ start.op = "load" /\ start.step > 1 =>
         \E w, v \in uploads : /\ Holds(v) /\ Below(w, v)
                              /\ FoundBelow(w) /\ OpenedOf(w, start.step)
    /\ start.op \in {"select", "running"} => start.opened \in uploads

IInv == Shape /\ VersionsGrow /\ FilesOfOneVersion /\ PushReplacesAll
        /\ FoundIsThere /\ OpenedOfOneVersion

-----------------------------------------------------------------------------
(* The invariant holds before the first push and start. *)
LEMMA InitIInv == Init => IInv
<1> SUFFICES ASSUME Init PROVE IInv
  OBVIOUS
<1>1. 1 \in Days /\ 0 \in 0 .. LastDay /\ LastDay \in Nat
  BY ReferenceAssumption DEF Days
<1>2. push.dates = NoDates /\ start.dates = NoDates /\ start.opened = NoDates
  BY DEF Init, NoPush, NoStart
<1>3. NoDates \in MaybeDates /\ \A k \in Steps : NoDates[k] = 0
  BY <1>1 DEF NoDates, MaybeDates, Steps
<1>4. Shape
  BY <1>1, <1>2, <1>3
  DEF Init, Shape, PushIsRecord, StartIsRecord, NoPush, NoStart, Steps
<1>5. VersionsGrow
  BY <1>1, <1>2, <1>3 DEF Init, VersionsGrow, Below, NoPush
<1>6. FilesOfOneVersion /\ PushReplacesAll
  BY DEF Init, FilesOfOneVersion, PushReplacesAll, NoPush
<1>7. FoundIsThere /\ OpenedOfOneVersion
  BY DEF Init, FoundIsThere, Found, OpenedOfOneVersion, NoStart
<1>8. QED
  BY <1>4, <1>5, <1>6, <1>7 DEF IInv

(* A push that goes on leaves of the start what the invariant speaks of. *)
LEMMA OverlapsKeeps ==
  ASSUME StartIsRecord, Overlaps
  PROVE  /\ StartIsRecord'
         /\ start'.op = start.op /\ start'.step = start.step
         /\ start'.dates = start.dates /\ start'.opened = start.opened
  BY DEF StartIsRecord, Overlaps

(* Taking files away and preparing another version keep what was said of the   *)
(* files that are there, and of the start.                                     *)
LEMMA RemovalKeepsStart ==
  ASSUME IInv, Overlaps, uploads \subseteq uploads',
         \A k \in Steps : directory'[k] \subseteq directory[k]
  PROVE  FilesOfOneVersion' /\ FoundIsThere' /\ OpenedOfOneVersion'
<1>1. /\ start'.op = start.op /\ start'.step = start.step
      /\ start'.dates = start.dates /\ start'.opened = start.opened
  BY OverlapsKeeps DEF IInv, Shape
<1>2. \A v \in uploads : v \in uploads'
  OBVIOUS
<1>3. ASSUME NEW v, Holds(v) PROVE Holds(v)'
  BY <1>3 DEF Holds
<1>4. FilesOfOneVersion'
  <2>1. CASE \A k \in Steps : directory[k] = {}
    BY <2>1 DEF FilesOfOneVersion
  <2>2. CASE \E v \in uploads : Holds(v)
    BY <1>2, <1>3, <2>2 DEF FilesOfOneVersion
  <2>3. QED
    BY <2>1, <2>2 DEF IInv, FilesOfOneVersion
<1>5. FoundIsThere'
  <2> SUFFICES ASSUME NEW k \in Steps, Found(k)'
               PROVE  \E v \in uploads' : Holds(v)' /\ FoundBelow(v)'
    BY DEF FoundIsThere
  <2>1. Found(k)
    BY <1>1 DEF Found
  <2>2. PICK v \in uploads : Holds(v) /\ FoundBelow(v)
    BY <2>1 DEF IInv, FoundIsThere
  <2>3. FoundBelow(v)'
    BY <1>1, <2>2 DEF FoundBelow, Found
  <2>4. QED
    BY <1>2, <1>3, <2>2, <2>3
<1>6. OpenedOfOneVersion'
  <2>1. start'.op \in {"select", "running"} => start'.opened \in uploads'
    BY <1>1, <1>2 DEF IInv, OpenedOfOneVersion
  <2>2. ASSUME start'.op = "load", start'.step > 1
        PROVE  \E w, v \in uploads' : /\ Holds(v)' /\ Below(w, v)
                                     /\ FoundBelow(w)' /\ OpenedOf(w, start.step)'
    <3>1. PICK w \in uploads, v \in uploads : /\ Holds(v) /\ Below(w, v)
                                            /\ FoundBelow(w) /\ OpenedOf(w, start.step)
      BY <1>1, <2>2 DEF IInv, OpenedOfOneVersion
    <3>2. FoundBelow(w)' /\ OpenedOf(w, start.step)'
      BY <1>1, <3>1 DEF FoundBelow, Found, OpenedOf
    <3>3. QED
      BY <1>2, <1>3, <3>1, <3>2
  <2>3. QED
    BY <2>1, <2>2 DEF OpenedOfOneVersion, Below
<1>7. QED
  BY <1>4, <1>5, <1>6

(* A put leaves only files of the push: the start has found none that are      *)
(* newer, for no version is.                                                   *)
LEMMA PutKeepsStart ==
  ASSUME IInv, Overlaps, uploads' = uploads, NEW p \in uploads,
         \A v \in uploads : Below(v, p),
         \A k \in Steps : \A f \in directory'[k] : f.date = p[k]
  PROVE  FilesOfOneVersion' /\ FoundIsThere' /\ OpenedOfOneVersion'
<1>1. /\ start'.op = start.op /\ start'.step = start.step
      /\ start'.dates = start.dates /\ start'.opened = start.opened
  BY OverlapsKeeps DEF IInv, Shape
<1>2. uploads' = uploads /\ uploads \subseteq [Steps -> Days]
  BY DEF IInv, VersionsGrow
<1>3. Holds(p)'
  BY DEF Holds
<1>4. FilesOfOneVersion'
  BY <1>2, <1>3 DEF FilesOfOneVersion
<1>5. FoundIsThere'
  <2> SUFFICES ASSUME NEW k \in Steps, Found(k)'
               PROVE  \E v \in uploads' : Holds(v)' /\ FoundBelow(v)'
    BY DEF FoundIsThere
  <2>1. Found(k)
    BY <1>1 DEF Found
  <2>2. PICK v \in uploads : Holds(v) /\ FoundBelow(v)
    BY <2>1 DEF IInv, FoundIsThere
  <2>3. ASSUME NEW j \in Steps, Found(j)' PROVE start'.dates[j] <= p[j]
    <3>1. start.dates[j] <= v[j] /\ v[j] <= p[j]
      BY <1>1, <2>2, <2>3 DEF FoundBelow, Found, Below
    <3>2. start.dates[j] \in Nat /\ v[j] \in Nat /\ p[j] \in Nat
      BY <1>2, ReferenceAssumption DEF IInv, Shape, MaybeDates, Days
    <3>3. QED
      BY <1>1, <3>1, <3>2
  <2>4. FoundBelow(p)'
    BY <2>3 DEF FoundBelow
  <2>5. QED
    BY <1>2, <1>3, <2>4
<1>6. OpenedOfOneVersion'
  <2>1. start'.op \in {"select", "running"} => start'.opened \in uploads'
    BY <1>1, <1>2 DEF IInv, OpenedOfOneVersion
  <2>2. ASSUME start'.op = "load", start'.step > 1
        PROVE  \E w, v \in uploads' : /\ Holds(v)' /\ Below(w, v)
                                     /\ FoundBelow(w)' /\ OpenedOf(w, start.step)'
    <3>1. PICK w \in uploads : FoundBelow(w) /\ OpenedOf(w, start.step)
      BY <1>1, <2>2 DEF IInv, OpenedOfOneVersion
    <3>2. FoundBelow(w)' /\ OpenedOf(w, start.step)'
      BY <1>1, <3>1 DEF FoundBelow, Found, OpenedOf
    <3>3. QED
      BY <1>2, <1>3, <3>1, <3>2
  <2>3. QED
    BY <2>1, <2>2 DEF OpenedOfOneVersion, Below
<1>7. QED
  BY <1>4, <1>5, <1>6

(* What the sources get and the days that pass leave both machines alone. *)
LEMMA OutsideIInv ==
  ASSUME IInv, UNCHANGED <<directory, push, start, uploads>>, Shape',
         newest' \in [Steps -> Days], \A k \in Steps : newest'[k] <= today',
         \A k \in Steps : newest[k] <= newest'[k]
  PROVE  IInv'
<1>1. VersionsGrow'
  <2>1. Below(push.dates, newest)
    BY DEF IInv, VersionsGrow
  <2>2. ASSUME NEW k \in Steps PROVE push'.dates[k] <= newest'[k]
    <3>1. /\ push.dates[k] \in Nat /\ newest[k] \in Nat /\ newest'[k] \in Nat
          /\ push.dates[k] <= newest[k] /\ newest[k] <= newest'[k]
      BY <2>1, ReferenceAssumption DEF IInv, VersionsGrow, Shape, MaybeDates, Days, Below
    <3>2. QED
      BY <3>1
  <2>3. QED
    BY <2>2 DEF IInv, VersionsGrow, Below
<1>2. QED
  BY <1>1 DEF IInv, FilesOfOneVersion, Holds, PushReplacesAll, FoundIsThere, Found,
     FoundBelow, OpenedOfOneVersion, OpenedOf, Below

(* The day goes on: no file is of a day that has not begun. *)
LEMMA NextDayIInv == IInv /\ NextDay => IInv'
<1> SUFFICES ASSUME IInv, NextDay PROVE IInv'
  OBVIOUS
<1>1. /\ UNCHANGED <<newest, directory, push, start, uploads>>
      /\ today' = today + 1 /\ today < LastDay
  BY DEF NextDay, sources
<1>2. today \in Nat /\ LastDay \in Nat /\ today' \in Days
  BY <1>1, ReferenceAssumption DEF IInv, Shape, Days
<1>3. Shape'
  BY <1>1, <1>2 DEF IInv, Shape, PushIsRecord, StartIsRecord
<1>4. ASSUME NEW k \in Steps
      PROVE  newest[k] \in Nat /\ newest[k] <= newest[k] /\ newest[k] <= today'
  <2>1. newest[k] \in Nat /\ newest[k] <= today
    BY DEF IInv, VersionsGrow, Days
  <2>2. QED
    BY <1>1, <1>2, <2>1
<1>5. QED
  BY <1>1, <1>3, <1>4, OutsideIInv DEF IInv, VersionsGrow

(* The newest file of a source directory is only replaced by one of today. *)
LEMMA DeliverIInv == IInv /\ Deliver => IInv'
<1> SUFFICES ASSUME IInv, Deliver PROVE IInv'
  OBVIOUS
<1>1. PICK delivered \in Deliveries :
        newest' = [k \in Steps |-> IF k \in delivered THEN today ELSE newest[k]]
  BY DEF Deliver
<1>2. UNCHANGED <<today, directory, push, start, uploads>>
  BY DEF Deliver
<1>3. Shape'
  BY <1>2 DEF IInv, Shape, PushIsRecord, StartIsRecord
<1>4. ASSUME NEW k \in Steps
      PROVE  newest'[k] \in Days /\ newest'[k] <= today' /\ newest[k] <= newest'[k]
  <2>1. newest[k] \in Days /\ newest[k] <= today /\ today \in Days /\ today \in Nat
    BY DEF IInv, Shape, VersionsGrow, Days
  <2>2. newest[k] \in Nat
    BY <2>1 DEF Days
  <2>3. QED
    BY <1>1, <1>2, <2>1, <2>2
<1>5. newest' \in [Steps -> Days]
  BY <1>1, <1>4
<1>6. QED
  BY <1>2, <1>3, <1>4, <1>5, OutsideIInv

(* A new push has the latest version; nothing is changed on the other machine. *)
LEMMA PrepareIInv == IInv /\ Prepare => IInv'
<1> SUFFICES ASSUME IInv, Prepare PROVE IInv'
  OBVIOUS
<1>1. /\ push'.op = "clear" /\ push'.step = 1 /\ push'.dates = newest /\ PushIsRecord'
      /\ UNCHANGED <<newest, directory, today>> /\ Overlaps
      /\ uploads' = uploads \cup {newest}
  BY DEF Prepare, NoPush, PushIsRecord, sources
<1>2. newest \in [Steps -> Days] /\ newest \in MaybeDates
  BY ReferenceAssumption DEF IInv, VersionsGrow, MaybeDates, Days
<1>3. Shape'
  BY <1>1, <1>2, OverlapsKeeps DEF IInv, Shape, Steps
<1>5. ASSUME NEW v \in uploads' PROVE Below(v, newest)
  <2> SUFFICES ASSUME NEW k \in Steps PROVE v[k] <= newest[k]
    BY DEF Below
  <2>1. newest[k] \in Nat
    BY <1>2 DEF Days
  <2>2. CASE v = newest
    BY <2>1, <2>2
  <2>3. CASE v \in uploads
    <3>1. v[k] <= push.dates[k] /\ push.dates[k] <= newest[k]
      BY <2>3 DEF IInv, VersionsGrow, Below
    <3>2. v[k] \in Nat /\ push.dates[k] \in Nat
      BY <2>3 DEF IInv, VersionsGrow, Shape, MaybeDates, Days
    <3>3. QED
      BY <2>1, <3>1, <3>2
  <2>4. QED
    BY <1>1, <2>2, <2>3
<1>6. VersionsGrow'
  BY <1>1, <1>2, <1>5 DEF IInv, VersionsGrow, Below
<1>7. PushReplacesAll'
  BY <1>1 DEF PushReplacesAll, Steps
<1>8. uploads \subseteq uploads' /\ \A k \in Steps : directory'[k] \subseteq directory[k]
  BY <1>1
<1>9. FilesOfOneVersion' /\ FoundIsThere' /\ OpenedOfOneVersion'
  BY <1>1, <1>8, RemovalKeepsStart
<1>10. QED
  BY <1>3, <1>6, <1>7, <1>9 DEF IInv

(* What a command of the push need show of its versions. *)
LEMMA SameVersions ==
  ASSUME IInv, UNCHANGED <<today, newest, uploads>>, push'.dates = push.dates,
         push.op # "idle"
  PROVE  VersionsGrow'
  BY DEF IInv, VersionsGrow, Below

(* Clearing takes files away, in the order of the directories. *)
LEMMA ClearIInv == IInv /\ Clear => IInv'
<1> SUFFICES ASSUME IInv, Clear PROVE IInv'
  OBVIOUS
<1>1. /\ push.op = "clear" /\ push.step \in Steps
      /\ push'.op = AfterClear(push.step).op /\ push'.step = AfterClear(push.step).step
      /\ push'.dates = push.dates /\ PushIsRecord'
  BY DEF IInv, Shape, Clear, PushIsRecord
<1>2. /\ directory' = [k \in Steps |-> IF k = push.step THEN {} ELSE directory[k]]
      /\ UNCHANGED <<today, newest, uploads>> /\ Overlaps
  BY DEF IInv, Shape, Clear, Cleared, sources
<1>3. \/ push.step < 4 /\ push'.op = "clear" /\ push'.step = push.step + 1
      \/ push.step = 4 /\ push'.op = "put" /\ push'.step = 1
  BY <1>1 DEF AfterClear, Steps
<1>4. Shape'
  BY <1>1, <1>2, <1>3, OverlapsKeeps DEF IInv, Shape, Steps
<1>5. VersionsGrow'
  BY <1>1, <1>2, SameVersions
<1>6. PushReplacesAll'
  <2>1. \A k \in Steps : k < push.step => directory[k] = {}
    BY <1>1 DEF IInv, PushReplacesAll
  <2>2. push'.op = "put" => \A k \in Steps : directory'[k] = {}
    BY <1>2, <1>3, <2>1 DEF Steps
  <2>3. push'.op = "clear" => \A k \in Steps : k < push'.step => directory'[k] = {}
    BY <1>1, <1>2, <1>3, <2>1 DEF Steps
  <2>4. QED
    BY <1>3, <2>2, <2>3 DEF PushReplacesAll, Holds
<1>7. FilesOfOneVersion' /\ FoundIsThere' /\ OpenedOfOneVersion'
  BY <1>2, RemovalKeepsStart
<1>8. QED
  BY <1>4, <1>5, <1>6, <1>7 DEF IInv

(* A put, begun or ended, leaves one file of the push's version in place of    *)
(* the file of that name.                                                      *)
LEMMA PutIInv ==
  ASSUME IInv, push.op \in {"put", "putting"}, UNCHANGED <<today, newest, uploads>>,
         Overlaps, PushIsRecord', push'.dates = push.dates, push'.step \in Steps,
         push'.op \in {"put", "putting", "idle"},
         NEW content,
         directory' = [directory EXCEPT ![push.step] =
                         Put(@, File(push.dates[push.step], content))]
  PROVE  IInv'
<1>1. \A files, date : \A f \in Put(files, File(date, content)) : f \in files \/ f.date = date
  BY DEF Put, File
<1>2. /\ directory' = [k \in Steps |-> IF k = push.step
                         THEN Put(directory[k], File(push.dates[push.step], content))
                         ELSE directory[k]]
      /\ push.step \in Steps
  BY DEF IInv, Shape
<1>3. \A k \in Steps : \A f \in directory[k] : f.date = push.dates[k]
  BY DEF IInv, PushReplacesAll, Holds
<1>4. ASSUME NEW k \in Steps, NEW f \in directory'[k] PROVE f.date = push.dates[k]
  <2>1. CASE k = push.step
    BY <1>1, <1>2, <1>3, <2>1
  <2>2. CASE k # push.step
    BY <1>2, <1>3, <2>2
  <2>3. QED
    BY <2>1, <2>2
<1>5. Shape'
  BY <1>2, OverlapsKeeps DEF IInv, Shape
<1>6. VersionsGrow'
  BY SameVersions
<1>7. PushReplacesAll'
  BY <1>4 DEF PushReplacesAll, Holds
<1>8. push.dates \in uploads /\ \A v \in uploads : Below(v, push.dates)
  BY DEF IInv, VersionsGrow
<1>9. FilesOfOneVersion' /\ FoundIsThere' /\ OpenedOfOneVersion'
  BY <1>4, <1>8, PutKeepsStart
<1>10. QED
  BY <1>5, <1>6, <1>7, <1>9 DEF IInv

(* So does the beginning of a transfer. *)
LEMMA BeginPutIInv == IInv /\ BeginPut => IInv'
<1> SUFFICES ASSUME IInv, BeginPut PROVE IInv'
  OBVIOUS
<1>1. /\ push'.op = "putting" /\ push'.step = push.step /\ push'.dates = push.dates
      /\ PushIsRecord'
  BY DEF IInv, Shape, BeginPut, PushIsRecord
<1>2. PICK content :
        directory' = [directory EXCEPT ![push.step] =
                        Put(@, File(push.dates[push.step], content))]
  BY DEF BeginPut
<1>3. /\ push.op = "put" /\ UNCHANGED <<today, newest, uploads>> /\ Overlaps
      /\ push.step \in Steps
  BY DEF BeginPut, IInv, Shape, sources
<1>4. QED
  BY <1>1, <1>2, <1>3, PutIInv

(* And its end. *)
LEMMA EndPutIInv == IInv /\ EndPut => IInv'
<1> SUFFICES ASSUME IInv, EndPut PROVE IInv'
  OBVIOUS
<1>1. /\ push'.op = AfterPut(push.step).op /\ push'.step = AfterPut(push.step).step
      /\ push'.dates = push.dates /\ PushIsRecord'
  BY DEF IInv, Shape, EndPut, PushIsRecord
<1>2. push'.op \in {"put", "idle"} /\ push'.step \in Steps
  BY <1>1 DEF AfterPut, IInv, Shape, Steps
<1>3. directory' = [directory EXCEPT ![push.step] =
                      Put(@, File(push.dates[push.step],
                                  Whole(push.files[Kinds[push.step]])))]
  BY DEF EndPut
<1>4. push.op = "putting" /\ UNCHANGED <<today, newest, uploads>> /\ Overlaps
  BY DEF EndPut, sources
<1>5. QED
  BY <1>1, <1>2, <1>3, <1>4, PutIInv

(* A push that breaks off leaves everything where it is. *)
LEMMA BreakOffIInv == IInv /\ BreakOff => IInv'
<1> SUFFICES ASSUME IInv, BreakOff PROVE IInv'
  OBVIOUS
<1>1. /\ push.op # "idle"
      /\ push'.op = "idle" /\ push'.step = push.step /\ push'.dates = push.dates
      /\ PushIsRecord' /\ UNCHANGED <<newest, directory, today, uploads>> /\ Overlaps
  BY DEF IInv, Shape, BreakOff, PushIsRecord, sources
<1>2. Shape'
  BY <1>1, OverlapsKeeps DEF IInv, Shape
<1>3. VersionsGrow'
  BY <1>1, SameVersions
<1>4. PushReplacesAll'
  BY <1>1 DEF PushReplacesAll
<1>5. FilesOfOneVersion' /\ FoundIsThere' /\ OpenedOfOneVersion'
  BY <1>1, RemovalKeepsStart
<1>6. QED
  BY <1>2, <1>3, <1>4, <1>5 DEF IInv

-----------------------------------------------------------------------------
(* What a step of the start need show: everything else stays. *)
LEMMA StartStep ==
  ASSUME IInv, UNCHANGED <<today, newest, directory, push, uploads>>, StartIsRecord',
         start'.op \in {"idle", "find", "load", "select", "running", "failed"},
         start'.step \in Steps, start'.dates \in MaybeDates, start'.opened \in MaybeDates,
         FoundIsThere', OpenedOfOneVersion'
  PROVE  IInv'
<1>1. Shape' /\ VersionsGrow'
  BY DEF IInv, Shape, PushIsRecord, VersionsGrow, Below
<1>2. FilesOfOneVersion' /\ PushReplacesAll'
  BY DEF IInv, FilesOfOneVersion, PushReplacesAll, Holds
<1>3. QED
  BY <1>1, <1>2 DEF IInv

(* A new start has found and opened nothing. *)
LEMMA BeginStartIInv == IInv /\ BeginStart => IInv'
<1> SUFFICES ASSUME IInv, BeginStart PROVE IInv'
  OBVIOUS
<1>1. /\ start'.op = "find" /\ start'.step = 1
      /\ start'.opened = NoDates /\ start'.dates = NoDates /\ StartIsRecord'
      /\ UNCHANGED <<today, newest, directory, push, uploads>>
  BY DEF BeginStart, NoStart, StartIsRecord, sources
<1>2. NoDates \in MaybeDates
  BY ReferenceAssumption DEF NoDates, MaybeDates, Steps
<1>3. FoundIsThere' /\ OpenedOfOneVersion'
  BY <1>1 DEF FoundIsThere, Found, OpenedOfOneVersion, Steps
<1>4. QED
  BY <1>1, <1>2, <1>3, StartStep DEF Steps

(* A start that gives up has no files. *)
LEMMA FailIInv ==
  ASSUME IInv, Fail, UNCHANGED <<today, newest, directory, push, uploads>>
  PROVE  IInv'
<1>1. /\ start'.op = "failed" /\ start'.step = start.step /\ start'.dates = start.dates
      /\ start'.opened = start.opened /\ StartIsRecord'
  BY DEF IInv, Shape, StartIsRecord, Fail
<1>2. FoundIsThere' /\ OpenedOfOneVersion'
  BY <1>1 DEF FoundIsThere, Found, OpenedOfOneVersion
<1>3. /\ start'.step \in Steps /\ start'.dates \in MaybeDates
      /\ start'.opened \in MaybeDates
  BY <1>1 DEF IInv, Shape
<1>4. QED
  BY <1>1, <1>2, <1>3, StartStep

(* The latest file of a directory is one of them. *)
LEMMA LatestIsFile ==
  ASSUME IInv, NEW k \in Steps, directory[k] # {}
  PROVE  Latest(directory[k]) \in directory[k]
<1>1. \E f \in directory[k] : \A g \in directory[k] : g.date <= f.date
  <2>1. PICK f \in directory[k] : TRUE
    OBVIOUS
  <2>2. PICK v \in uploads : Holds(v)
    BY <2>1 DEF IInv, FilesOfOneVersion
  <2>3. v[k] \in Nat
    BY <2>2 DEF IInv, VersionsGrow, Days
  <2>4. \A g \in directory[k] : g.date <= f.date
    BY <2>2, <2>3 DEF Holds
  <2>5. QED
    BY <2>4
<1>2. QED
  BY <1>1, Zenon DEF Latest

(* The file that is found is of the version that is there. *)
LEMMA FindIInv == IInv /\ Find => IInv'
<1> SUFFICES ASSUME IInv, Find PROVE IInv'
  OBVIOUS
<1> DEFINE k == start.step
           latest == Latest(directory[k])
<1>1. /\ UNCHANGED <<today, newest, directory, push, uploads>>
      /\ start.op = "find" /\ k \in Steps
  BY DEF Find, IInv, Shape, sources
<1>2. CASE directory[k] # {} /\ start' = [start EXCEPT !.dates[k] = latest.date,
                !.op = IF k < 4 THEN "find" ELSE "load", !.step = IF k < 4 THEN k + 1 ELSE 1]
  <2>1. latest \in directory[k]
    BY <1>1, <1>2, LatestIsFile
  <2>2. PICK v \in uploads : Holds(v) /\ FoundBelow(v)
    <3>1. CASE \E j \in Steps : Found(j)
      BY <3>1 DEF IInv, FoundIsThere
    <3>2. CASE ~\E j \in Steps : Found(j)
      BY <1>1, <2>1, <3>2 DEF IInv, FilesOfOneVersion, FoundBelow
    <3>3. QED
      BY <3>1, <3>2
  <2>3. latest.date = v[k] /\ v \in [Steps -> Days]
    BY <1>1, <2>1, <2>2 DEF Holds, IInv, VersionsGrow
  <2>4. v[k] \in Nat /\ v[k] \in 0 .. LastDay
    BY <1>1, <2>3, ReferenceAssumption DEF Days
  <2>5. /\ start'.op = IF k < 4 THEN "find" ELSE "load"
        /\ start'.step = IF k < 4 THEN k + 1 ELSE 1
        /\ start'.dates = [start.dates EXCEPT ![k] = latest.date]
        /\ start'.opened = start.opened /\ StartIsRecord'
    BY <1>2 DEF IInv, Shape, StartIsRecord
  <2>6. start'.dates \in MaybeDates /\ start.dates \in MaybeDates
    BY <1>1, <2>3, <2>4, <2>5 DEF IInv, Shape, MaybeDates
  <2>7. start'.step \in Steps
    BY <1>1, <2>5 DEF Steps
  <2>8. \A j \in Steps : Found(j)' => Found(j) \/ j = k
    BY <1>1, <2>5 DEF Found, Steps
  <2>9. FoundBelow(v)'
    <3> SUFFICES ASSUME NEW j \in Steps, Found(j)' PROVE start'.dates[j] <= v[j]
      BY DEF FoundBelow
    <3>1. CASE j = k
      BY <1>1, <2>3, <2>4, <2>5, <2>6, <3>1 DEF MaybeDates
    <3>2. CASE j # k
      BY <1>1, <2>2, <2>5, <2>6, <2>8, <3>2 DEF MaybeDates, FoundBelow
    <3>3. QED
      BY <3>1, <3>2
  <2>10. v \in uploads' /\ Holds(v)'
    BY <1>1, <2>2 DEF Holds
  <2>11. FoundIsThere'
    BY <2>9, <2>10 DEF FoundIsThere
  <2>12. OpenedOfOneVersion'
    BY <1>1, <2>5 DEF OpenedOfOneVersion
  <2>13. start'.op \in {"find", "load"} /\ start'.opened \in MaybeDates
    BY <2>5 DEF IInv, Shape
  <2>14. QED
    BY <1>1, <2>5, <2>6, <2>7, <2>11, <2>12, <2>13, StartStep
<1>3. CASE Fail
  BY <1>1, <1>3, FailIInv
<1>4. QED
  BY <1>2, <1>3 DEF Find

(* The first file opened is of the version that is there, and what has been    *)
(* found is not newer: from then on that is the version w of what is opened.   *)
(* A file opened later is of a version that is not before w and has the date   *)
(* that was found, which is not after that of w.                               *)
LEMMA OpensOneVersion ==
  ASSUME IInv, start.op = "load", NEW f \in Opens(directory[start.step], start.dates[start.step])
  PROVE  \E w, v \in uploads :
            /\ Holds(v) /\ Below(w, v) /\ FoundBelow(w) /\ OpenedOf(w, start.step)
            /\ f.date = w[start.step] /\ start.dates[start.step] = w[start.step]
<1> DEFINE k == start.step
<1>1. k \in Steps /\ f \in directory[k] /\ f.date = start.dates[k]
  BY DEF IInv, Shape, Opens
<1>2. CASE k = 1
  <2>1. PICK v \in uploads : Holds(v) /\ FoundBelow(v)
    BY <1>1 DEF IInv, FoundIsThere, Found
  <2>2. f.date = v[k] /\ start.dates[k] = v[k]
    BY <1>1, <2>1 DEF Holds
  <2>3. \A j \in Steps : v[j] \in Nat
    BY DEF IInv, VersionsGrow, Days
  <2>4. Below(v, v)
    BY <2>3 DEF Below
  <2>5. OpenedOf(v, k)
    BY <1>2 DEF OpenedOf, Steps
  <2>6. QED
    BY <2>1, <2>2, <2>4, <2>5
<1>3. CASE k # 1
  <2>1. k > 1
    BY <1>1, <1>3 DEF Steps
  <2>2. PICK w \in uploads, v \in uploads :
          Holds(v) /\ Below(w, v) /\ FoundBelow(w) /\ OpenedOf(w, k)
    BY <2>1 DEF IInv, OpenedOfOneVersion
  <2>3. f.date = v[k] /\ start.dates[k] <= w[k] /\ w[k] <= v[k]
    BY <1>1, <2>2 DEF Holds, FoundBelow, Found, Below
  <2>4. w[k] \in Nat /\ v[k] \in Nat
    BY <1>1, <2>2 DEF IInv, VersionsGrow, Days
  <2>5. f.date = w[k] /\ start.dates[k] = w[k]
    BY <1>1, <2>3, <2>4
  <2>6. QED
    BY <2>2, <2>5
<1>4. QED
  BY <1>2, <1>3

(* The files opened stay of one version, and the last completes it. *)
LEMMA LoadIInv == IInv /\ Load => IInv'
<1> SUFFICES ASSUME IInv, Load PROVE IInv'
  OBVIOUS
<1> DEFINE k == start.step
<1>1. /\ UNCHANGED <<today, newest, directory, push, uploads>>
      /\ start.op = "load" /\ k \in Steps
  BY DEF Load, IInv, Shape, sources
<1>2. ASSUME NEW f \in Opens(directory[k], start.dates[k]),
             start' = [start EXCEPT !.data[Kinds[k]] = f.rows, !.opened[k] = f.date,
                         !.op = IF k < 4 THEN "load" ELSE "select",
                         !.step = IF k < 4 THEN k + 1 ELSE 1]
      PROVE  IInv'
  <2>1. PICK w \in uploads, v \in uploads :
           /\ Holds(v) /\ Below(w, v) /\ FoundBelow(w) /\ OpenedOf(w, k)
           /\ f.date = w[k] /\ start.dates[k] = w[k]
    BY <1>1, <1>2, OpensOneVersion
  <2>2. /\ start'.op = IF k < 4 THEN "load" ELSE "select"
        /\ start'.step = IF k < 4 THEN k + 1 ELSE 1
        /\ start'.dates = start.dates
        /\ start'.opened = [start.opened EXCEPT ![k] = w[k]]
        /\ StartIsRecord'
    BY <1>2, <2>1 DEF IInv, Shape, StartIsRecord
  <2>3. start'.step \in Steps
    BY <1>1, <2>2 DEF Steps
  <2>4. w \in [Steps -> Days] /\ w[k] \in 0 .. LastDay
    BY <1>1, <2>1, ReferenceAssumption DEF IInv, VersionsGrow, Days
  <2>5. start.opened \in MaybeDates /\ start'.opened \in MaybeDates
        /\ start'.dates \in MaybeDates
    BY <1>1, <2>2, <2>4 DEF IInv, Shape, MaybeDates
  <2>6. \A j \in Steps : j <= k => start.dates[j] = w[j] /\ start'.opened[j] = w[j]
    BY <1>1, <2>1, <2>2, <2>5 DEF OpenedOf, MaybeDates, Steps
  <2>7. uploads' = uploads /\ Holds(v)'
    BY <1>1, <2>1 DEF Holds
  <2>8. CASE k < 4
    <3>1. \A j \in Steps : j < start'.step =>
             start'.dates[j] = w[j] /\ start'.opened[j] = w[j]
      BY <1>1, <2>2, <2>6, <2>8 DEF Steps
    <3>2. OpenedOf(w, start.step)'
      BY <3>1 DEF OpenedOf
    <3>3. FoundBelow(w)'
      BY <1>1, <2>1, <2>2, <2>8 DEF FoundBelow, Found
    <3>4. OpenedOfOneVersion'
      BY <2>1, <2>2, <2>7, <2>8, <3>2, <3>3 DEF OpenedOfOneVersion, Below
    <3>5. FoundIsThere'
      <4>1. \A j \in Steps : Found(j)
        BY <1>1 DEF Found
      <4>2. PICK u \in uploads : Holds(u) /\ FoundBelow(u)
        BY <1>1, <4>1 DEF IInv, FoundIsThere
      <4>3. Holds(u)' /\ FoundBelow(u)'
        BY <1>1, <2>2, <4>1, <4>2 DEF Holds, FoundBelow
      <4>4. QED
        BY <2>7, <4>2, <4>3 DEF FoundIsThere
    <3>6. QED
      BY <1>1, <2>2, <2>3, <2>5, <2>8, <3>4, <3>5, StartStep
  <2>9. CASE k = 4
    <3>1. start'.opened = w
      BY <2>4, <2>5, <2>6, <2>9 DEF MaybeDates, Steps
    <3>2. OpenedOfOneVersion'
      BY <2>1, <2>2, <2>7, <2>9, <3>1 DEF OpenedOfOneVersion
    <3>3. FoundIsThere'
      BY <2>2, <2>9 DEF FoundIsThere, Found
    <3>4. QED
      BY <1>1, <2>2, <2>3, <2>5, <2>9, <3>2, <3>3, StartStep
  <2>10. QED
    BY <1>1, <2>8, <2>9 DEF Steps
<1>3. CASE Fail
  BY <1>1, <1>3, FailIInv
<1>4. QED
  BY <1>2, <1>3 DEF Load

(* The selection opens nothing. *)
LEMMA SelectIInv == IInv /\ Select => IInv'
<1> SUFFICES ASSUME IInv, Select PROVE IInv'
  OBVIOUS
<1>1. UNCHANGED <<today, newest, directory, push, uploads>> /\ start.op = "select"
  BY DEF Select, sources
<1>2. CASE \E monitored, indices : start' = [start EXCEPT !.op = "running",
                !.monitored = monitored, !.indices = indices]
  <2>1. /\ start'.op = "running" /\ start'.step = start.step
        /\ start'.dates = start.dates /\ start'.opened = start.opened /\ StartIsRecord'
    BY <1>2 DEF IInv, Shape, StartIsRecord
  <2>2. FoundIsThere' /\ OpenedOfOneVersion'
    BY <1>1, <2>1 DEF IInv, FoundIsThere, Found, OpenedOfOneVersion
  <2>3. /\ start'.step \in Steps /\ start'.dates \in MaybeDates
        /\ start'.opened \in MaybeDates
    BY <2>1 DEF IInv, Shape
  <2>4. QED
    BY <1>1, <2>1, <2>2, <2>3, StartStep
<1>3. CASE Fail
  BY <1>1, <1>3, FailIInv
<1>4. QED
  BY <1>2, <1>3 DEF Select

-----------------------------------------------------------------------------
(* Every step keeps the invariant. *)
LEMMA NextIInv == IInv /\ [Next]_vars => IInv'
<1> SUFFICES ASSUME IInv, [Next]_vars PROVE IInv'
  OBVIOUS
<1>1. CASE UNCHANGED vars
  <2>1. UNCHANGED <<today, newest, directory, push, start, uploads>>
    BY <1>1 DEF vars, sources
  <2>2. FoundIsThere' /\ OpenedOfOneVersion'
    BY <2>1 DEF IInv, FoundIsThere, Found, FoundBelow, OpenedOfOneVersion, OpenedOf,
       Holds, Below
  <2>3. StartIsRecord'
    BY <2>1 DEF IInv, Shape, StartIsRecord
  <2>4. QED
    BY <2>1, <2>2, <2>3, StartStep DEF IInv, Shape
<1>2. CASE Next
  BY <1>2, NextDayIInv, DeliverIInv, PrepareIInv, ClearIInv, BeginPutIInv, EndPutIInv,
     BreakOffIInv, BeginStartIInv, FindIInv, LoadIInv, SelectIInv DEF Next
<1>3. QED
  BY <1>1, <1>2

(* A start that succeeds has opened, by their dates, the four files of one     *)
(* push, whatever pushes did meanwhile: LoadReferenceData, which compares no   *)
(* dates, beside push_reference_data_to_zhongtai.sh.                           *)
THEOREM OneVersionOnlyHolds == Spec => []OneVersionOnly
<1>1. Init => IInv
  BY InitIInv
<1>2. IInv /\ [Next]_vars => IInv'
  BY NextIInv
<1>3. IInv => OneVersionOnly
  BY DEF IInv, OpenedOfOneVersion, OneVersionOnly
<1>4. QED
  BY <1>1, <1>2, <1>3, PTL DEF Spec

-----------------------------------------------------------------------------
\* A file, or what is to be put, says whether it is readable.
SaysReadable(file) == file.readable \in BOOLEAN

(* What is left of the types: nothing of the argument above depends on it. *)
RestInv ==
    /\ source \in Markets
    /\ \A k \in Steps : \A f \in directory[k] : SaysReadable(f)
    /\ push.day \in 0 .. LastDay /\ start.day \in 0 .. LastDay
    /\ pushes \in 0 .. MaxPushes /\ starts \in 0 .. MaxStarts

(* The rest of the types holds at the start. *)
LEMMA InitRest == Init => RestInv
  BY ReferenceAssumption DEF Init, RestInv, NoPush, NoStart, Steps

(* Whatever content is put, the file says whether it is readable. *)
LEMMA PutReadable ==
  ASSUME IInv, RestInv, NEW content, SaysReadable(content),
         directory' = [directory EXCEPT ![push.step] = Put(@, File(push.dates[push.step], content))]
  PROVE  \A k \in Steps : \A f \in directory'[k] : SaysReadable(f)
<1>1. /\ directory' = [k \in Steps |-> IF k = push.step
                         THEN Put(directory[k], File(push.dates[push.step], content))
                         ELSE directory[k]]
      /\ push.step \in Steps
  BY DEF IInv, Shape
<1>2. \A files, date : \A f \in Put(files, File(date, content)) :
         f \in files \/ f.readable = content.readable
  BY DEF Put, File
<1>3. QED
  BY <1>1, <1>2 DEF RestInv, SaysReadable

(* A cut file says whether it is readable. *)
LEMMA CutsReadable ==
  ASSUME NEW k, NEW rows, NEW content \in Cuts(k, rows)
  PROVE  SaysReadable(content)
<1>1. \/ content = [rows |-> <<>>, readable |-> FALSE]
      \/ \E n \in 0 .. Len(rows) - 1 :
           content = [rows |-> SubSeq(rows, 1, n), readable |-> TRUE]
      \/ \E n \in DOMAIN rows :
           content = [rows |-> Append(SubSeq(rows, 1, n - 1), Beginning(k, rows[n])),
                      readable |-> TRUE]
  BY Zenon DEF Cuts
<1>2. content.readable = FALSE \/ content.readable = TRUE
  BY <1>1
<1>3. QED
  BY <1>2 DEF SaysReadable

(* What a start does after its beginning leaves its day alone. *)
LEMMA StartKeepsDay ==
  ASSUME IInv, Find \/ Load \/ Select
  PROVE  start'.day = start.day
<1>1. CASE Find
  BY <1>1 DEF Find, Fail, IInv, Shape, StartIsRecord
<1>2. CASE Load
  BY <1>2 DEF Load, Fail, IInv, Shape, StartIsRecord
<1>3. CASE Select
  BY <1>3 DEF Select, Fail, IInv, Shape, StartIsRecord
<1>4. QED
  BY <1>1, <1>2, <1>3

(* Every step keeps the rest of the types. *)
LEMMA NextRest == IInv /\ RestInv /\ [Next]_vars => RestInv'
<1> SUFFICES ASSUME IInv, RestInv, [Next]_vars PROVE RestInv'
  OBVIOUS
<1>0. ASSUME Overlaps PROVE start'.day = start.day
  BY <1>0 DEF Overlaps, IInv, Shape, StartIsRecord
<1>1. CASE NextDay
  BY <1>1 DEF NextDay, sources, RestInv
<1>2. CASE Prepare
  <2>1. push'.day = today /\ today \in 0 .. LastDay /\ pushes' \in 0 .. MaxPushes
    BY <1>2, ReferenceAssumption DEF Prepare, NoPush, RestInv, IInv, Shape, Days
  <2>2. UNCHANGED <<source, directory, starts>>
    BY <1>2 DEF Prepare, sources
  <2>3. QED
    BY <1>0, <1>2, <2>1, <2>2 DEF Prepare, RestInv
<1>3. CASE Clear
  <2>1. push'.day = push.day
    BY <1>3 DEF Clear, IInv, Shape, PushIsRecord
  <2>2. QED
    BY <1>0, <1>3, <2>1 DEF Clear, Cleared, sources, RestInv, IInv, Shape
<1>4. CASE BeginPut
  <2>1. PICK content \in Cuts(push.step, push.files[Kinds[push.step]]) :
          directory' = [directory EXCEPT ![push.step] = Put(@, File(push.dates[push.step], content))]
    BY <1>4 DEF BeginPut
  <2>2. SaysReadable(content)
    BY <2>1, CutsReadable
  <2>3. \A k \in Steps : \A f \in directory'[k] : SaysReadable(f)
    BY <2>1, <2>2, PutReadable
  <2>4. UNCHANGED <<source, push.day, pushes, starts>> /\ start'.day = start.day
    BY <1>0, <1>4 DEF BeginPut, sources, IInv, Shape, PushIsRecord
  <2>5. QED
    BY <2>3, <2>4 DEF RestInv
<1>5. CASE EndPut
  <2>1. directory' = [directory EXCEPT ![push.step] =
                        Put(@, File(push.dates[push.step],
                                    Whole(push.files[Kinds[push.step]])))]
    BY <1>5 DEF EndPut
  <2>2. SaysReadable(Whole(push.files[Kinds[push.step]]))
    BY DEF Whole, SaysReadable
  <2>3. \A k \in Steps : \A f \in directory'[k] : SaysReadable(f)
    BY <2>1, <2>2, PutReadable
  <2>4. UNCHANGED <<source, push.day, pushes, starts>> /\ start'.day = start.day
    BY <1>0, <1>5 DEF EndPut, sources, IInv, Shape, PushIsRecord
  <2>5. QED
    BY <2>3, <2>4 DEF RestInv
<1>6. CASE BreakOff
  <2>1. push'.day = push.day
    BY <1>6 DEF BreakOff, IInv, Shape, PushIsRecord
  <2>2. QED
    BY <1>0, <1>6, <2>1 DEF BreakOff, sources, RestInv
<1>7. CASE BeginStart
  <2>1. start'.day = today
    BY <1>7 DEF BeginStart, NoStart
  <2>2. QED
    BY <1>7, <2>1, ReferenceAssumption DEF BeginStart, sources, RestInv, IInv, Shape, Days
<1>8. CASE Find \/ Load \/ Select
  <2>1. UNCHANGED <<source, directory, push, pushes, starts>>
    BY <1>8 DEF Find, Load, Select, sources
  <2>2. QED
    BY <1>8, <2>1, StartKeepsDay DEF RestInv
<1>9. CASE UNCHANGED vars
  BY <1>9 DEF vars, sources, RestInv
<1>10. CASE Deliver
  BY <1>10 DEF Deliver, RestInv
<1>11. QED
  BY <1>1, <1>2, <1>3, <1>4, <1>5, <1>6, <1>7, <1>8, <1>9, <1>10 DEF Next

(* Together they are the type invariant. *)
LEMMA InvTypes == IInv /\ RestInv => TypeOK
<1> SUFFICES ASSUME IInv, RestInv PROVE TypeOK
  OBVIOUS
<1>1. \A k \in Steps : \A f \in directory[k] : f.date \in Days
  BY DEF IInv, VersionsGrow, FilesOfOneVersion, Holds
<1>2. newest \in [Steps -> Days] /\ uploads \subseteq [Steps -> Days]
  BY DEF IInv, VersionsGrow
<1>3. QED
  BY <1>1, <1>2 DEF TypeOK, IInv, Shape, RestInv, SaysReadable, MaybeDates

(* The variables of the push and the start keep their types. *)
THEOREM ReferenceTypes == Spec => []TypeOK
<1>1. Init => IInv /\ RestInv
  BY InitIInv, InitRest
<1>2. IInv /\ RestInv /\ [Next]_vars => (IInv /\ RestInv)'
  BY NextIInv, NextRest
<1>3. IInv /\ RestInv => TypeOK
  BY InvTypes
<1>4. QED
  BY <1>1, <1>2, <1>3, PTL DEF Spec


-----------------------------------------------------------------------------
\* What a push that has ended has left
LeavesGap ==
    \/ push.ended = "complete"
    \/ push.ended = "clear" /\ push.at = 1
    \/ push.ended = "putting" /\ push.at = 4
    \/ \E k \in Steps : directory[k] = {}

\* While a push runs, the directories from the one of its next put on are empty.
RestIsEmpty ==
    /\ push.op = "put" => \A k \in Steps : k >= push.step => directory[k] = {}
    /\ push.op = "putting" => \A k \in Steps : k > push.step => directory[k] = {}

PushLeaves == RestIsEmpty /\ (push.op = "idle" => LeavesGap)

\* An undisturbed start meets no push, and the directories it has been through
\* are still not empty.
UndisturbedFinds ==
    Loading /\ ~start.overlaps =>
      /\ push.op = "idle"
      /\ start.op = "find" => \A k \in Steps : k < start.step => directory[k] # {}
      /\ start.op # "find" => \A k \in Steps : directory[k] # {}

NoticeInv == PushLeaves /\ UndisturbedFinds

(* Before the first push all directories are empty. *)
LEMMA InitNotice == Init => NoticeInv
  BY DEF Init, NoticeInv, PushLeaves, RestIsEmpty, LeavesGap, UndisturbedFinds, Loading,
     NoPush, NoStart, Steps

(* A command of the push disturbs every start that is under way. *)
LEMMA PushDisturbs ==
  ASSUME IInv, Overlaps
  PROVE  UndisturbedFinds'
<1>1. /\ start'.op = start.op /\ start'.overlaps = (start.overlaps \/ Loading)
  BY DEF IInv, Shape, StartIsRecord, Overlaps
<1>2. Loading' = Loading
  BY <1>1 DEF Loading
<1>3. Loading => start'.overlaps
  BY <1>1
<1>4. QED
  BY <1>2, <1>3 DEF UndisturbedFinds

(* Every command leaves the directories after it empty, so that a push which   *)
(* breaks off leaves an empty one unless nothing or only the end is missing.   *)
LEMMA PushStepLeaves ==
  ASSUME IInv, PushLeaves, Prepare \/ Clear \/ BeginPut \/ EndPut \/ BreakOff
  PROVE  PushLeaves'
<1>1. push.step \in Steps /\ PushIsRecord /\ directory = [k \in Steps |-> directory[k]]
  BY DEF IInv, Shape
<1>2. CASE Prepare
  <2>1. push'.op = "clear"
    BY <1>2 DEF Prepare, NoPush
  <2>2. QED
    BY <2>1 DEF PushLeaves, RestIsEmpty
<1>3. CASE Clear
  <2>1. /\ push.op = "clear"
        /\ push'.op = AfterClear(push.step).op /\ push'.step = AfterClear(push.step).step
    BY <1>1, <1>3 DEF Clear, PushIsRecord
  <2>2. \A k \in Steps : directory'[k] = IF k = push.step THEN {} ELSE directory[k]
    BY <1>1, <1>3 DEF Clear, Cleared
  <2>3. \/ push'.op = "clear"
        \/ push.step = 4 /\ push'.op = "put" /\ push'.step = 1
    BY <1>1, <2>1 DEF AfterClear, Steps
  <2>4. \A k \in Steps : k < push.step => directory[k] = {}
    BY <2>1 DEF IInv, PushReplacesAll
  <2>5. push'.op = "put" => \A k \in Steps : directory'[k] = {}
    BY <2>2, <2>3, <2>4 DEF Steps
  <2>6. QED
    BY <2>3, <2>5 DEF PushLeaves, RestIsEmpty
<1>4. CASE BeginPut
  <2>1. push.op = "put" /\ push'.op = "putting" /\ push'.step = push.step
    BY <1>1, <1>4 DEF BeginPut, PushIsRecord
  <2>2. \A k \in Steps : k # push.step => directory'[k] = directory[k]
    BY <1>1, <1>4 DEF BeginPut
  <2>3. \A k \in Steps : k > push'.step => directory'[k] = {}
    BY <1>1, <2>1, <2>2 DEF PushLeaves, RestIsEmpty, Steps
  <2>4. QED
    BY <2>1, <2>3 DEF PushLeaves, RestIsEmpty
<1>5. CASE EndPut
  <2>1. /\ push.op = "putting"
        /\ push'.op = AfterPut(push.step).op /\ push'.step = AfterPut(push.step).step
        /\ push.step = 4 => push'.ended = "complete"
    BY <1>1, <1>5 DEF EndPut, PushIsRecord
  <2>2. \A k \in Steps : k # push.step => directory'[k] = directory[k]
    BY <1>1, <1>5 DEF EndPut
  <2>3. \/ push.step < 4 /\ push'.op = "put" /\ push'.step = push.step + 1
        \/ push'.op = "idle" /\ push'.ended = "complete"
    BY <1>1, <2>1 DEF AfterPut, Steps
  <2>4. push'.op = "put" => \A k \in Steps : k >= push'.step => directory'[k] = {}
    BY <1>1, <2>1, <2>2, <2>3 DEF PushLeaves, RestIsEmpty, Steps
  <2>5. push'.op # "putting" /\ (push'.op = "idle" => push'.ended = "complete")
    BY <2>3
  <2>6. QED
    BY <2>4, <2>5 DEF PushLeaves, RestIsEmpty, LeavesGap
<1>6. CASE BreakOff
  <2>1. /\ push.op # "idle" /\ push'.op = "idle"
        /\ push'.ended = push.op /\ push'.at = push.step /\ directory' = directory
    BY <1>1, <1>6 DEF BreakOff, PushIsRecord
  <2>2. CASE push.op = "clear"
    <3>1. push.step = 1 \/ directory[1] = {}
      BY <1>1, <2>2 DEF IInv, PushReplacesAll, Steps
    <3>2. QED
      BY <2>1, <2>2, <3>1 DEF PushLeaves, RestIsEmpty, LeavesGap, Steps
  <2>3. CASE push.op = "put"
    <3>1. directory[push.step] = {}
      BY <1>1, <2>3 DEF PushLeaves, RestIsEmpty, Steps
    <3>2. QED
      BY <1>1, <2>1, <3>1 DEF PushLeaves, RestIsEmpty, LeavesGap
  <2>4. CASE push.op = "putting"
    <3>1. push.step = 4 \/ directory[4] = {}
      BY <1>1, <2>4 DEF PushLeaves, RestIsEmpty, Steps
    <3>2. QED
      BY <2>1, <2>4, <3>1 DEF PushLeaves, RestIsEmpty, LeavesGap, Steps
  <2>5. QED
    BY <2>1, <2>2, <2>3, <2>4 DEF IInv, Shape
<1>7. QED
  BY <1>2, <1>3, <1>4, <1>5, <1>6

(* A start goes from a directory to the next only if it found a file there,    *)
(* and leaves the directories alone.                                           *)
LEMMA StartStepFinds ==
  ASSUME IInv, UndisturbedFinds, BeginStart \/ Find \/ Load \/ Select
  PROVE  UndisturbedFinds' /\ UNCHANGED <<directory, push>>
<1>1. UNCHANGED <<directory, push>> /\ start.step \in Steps /\ StartIsRecord
  BY DEF BeginStart, Find, Load, Select, IInv, Shape
<1>2. CASE BeginStart
  <2>1. start'.op = "find" /\ start'.step = 1 /\ (~start'.overlaps => push.op = "idle")
    BY <1>2 DEF BeginStart, NoStart
  <2>2. QED
    BY <1>1, <2>1 DEF UndisturbedFinds, Steps
<1>3. ASSUME Fail PROVE UndisturbedFinds'
  BY <1>1, <1>3 DEF Fail, StartIsRecord, UndisturbedFinds, Loading
<1>4. CASE Find /\ ~Fail
  <2> DEFINE k == start.step
  <2>1. /\ start.op = "find" /\ directory[k] # {}
        /\ start'.op = IF k < 4 THEN "find" ELSE "load"
        /\ start'.step = IF k < 4 THEN k + 1 ELSE 1
        /\ start'.overlaps = start.overlaps
    BY <1>1, <1>4 DEF Find, StartIsRecord
  <2>2. ~start.overlaps =>
          push.op = "idle" /\ \A j \in Steps : j < k => directory[j] # {}
    BY <2>1 DEF UndisturbedFinds, Loading
  <2>3. CASE k < 4
    <3>1. ~start.overlaps => \A j \in Steps : j < k + 1 => directory[j] # {}
      BY <1>1, <2>1, <2>2 DEF Steps
    <3>2. QED
      BY <1>1, <2>1, <2>2, <2>3, <3>1 DEF UndisturbedFinds
  <2>4. CASE k = 4
    <3>1. ~start.overlaps => \A j \in Steps : directory[j] # {}
      BY <2>1, <2>2, <2>4 DEF Steps
    <3>2. QED
      BY <1>1, <2>1, <2>2, <2>4, <3>1 DEF UndisturbedFinds
  <2>5. QED
    BY <1>1, <2>3, <2>4 DEF Steps
<1>5. CASE Load /\ ~Fail
  <2>1. /\ start.op = "load" /\ start'.op \in {"load", "select"}
        /\ start'.overlaps = start.overlaps
    BY <1>1, <1>5 DEF Load, StartIsRecord
  <2>2. QED
    BY <1>1, <2>1 DEF UndisturbedFinds, Loading
<1>6. CASE Select /\ ~Fail
  <2>1. start'.op = "running"
    BY <1>1, <1>6 DEF Select, StartIsRecord
  <2>2. QED
    BY <1>1, <2>1 DEF UndisturbedFinds, Loading
<1>7. QED
  BY <1>1, <1>2, <1>3, <1>4, <1>5, <1>6

(* Every step keeps what a start needs to notice a push that broke off. *)
LEMMA NextNotice == IInv /\ NoticeInv /\ [Next]_vars => NoticeInv'
<1> SUFFICES ASSUME IInv, NoticeInv, [Next]_vars PROVE NoticeInv'
  OBVIOUS
<1>1. CASE Prepare \/ Clear \/ BeginPut \/ EndPut \/ BreakOff
  <2>1. Overlaps
    BY <1>1 DEF Prepare, Clear, BeginPut, EndPut, BreakOff
  <2>2. QED
    BY <1>1, <2>1, PushDisturbs, PushStepLeaves DEF NoticeInv
<1>2. CASE BeginStart \/ Find \/ Load \/ Select
  <2>1. UndisturbedFinds' /\ UNCHANGED <<directory, push>>
    BY <1>2, StartStepFinds DEF NoticeInv
  <2>2. QED
    BY <2>1 DEF NoticeInv, PushLeaves, RestIsEmpty, LeavesGap
<1>3. CASE NextDay \/ Deliver \/ UNCHANGED vars
  <2>1. UNCHANGED <<directory, push, start>>
    BY <1>3 DEF NextDay, Deliver, vars
  <2>2. QED
    BY <2>1 DEF NoticeInv, PushLeaves, RestIsEmpty, LeavesGap, UndisturbedFinds, Loading
<1>4. QED
  BY <1>1, <1>2, <1>3 DEF Next

(* Only the selection makes a start succeed, and it leaves overlaps alone. *)
LEMMA OnlySelectSucceeds ==
  ASSUME IInv, [Next]_vars, start.op # start'.op, start'.op = "running"
  PROVE  start.op = "select" /\ start'.overlaps = start.overlaps
<1>1. StartIsRecord
  BY DEF IInv, Shape
<1>2. ~Overlaps
  BY <1>1 DEF Overlaps, StartIsRecord
<1>3. start' # start
  OBVIOUS
<1>4. CASE BeginStart
  BY <1>4 DEF BeginStart, NoStart
<1>5. CASE Find
  BY <1>1, <1>5 DEF Find, Fail, StartIsRecord
<1>6. CASE Load
  <2>1. start'.op \in {"load", "select", "failed"}
    <3>1. CASE Fail
      BY <1>1, <3>1 DEF Fail, StartIsRecord
    <3>2. CASE ~Fail
      <4>1. PICK f : start' = [start EXCEPT !.data[Kinds[start.step]] = f.rows,
                        !.opened[start.step] = f.date,
                        !.op = IF start.step < 4 THEN "load" ELSE "select",
                        !.step = IF start.step < 4 THEN start.step + 1 ELSE 1]
        BY <1>6, <3>2 DEF Load
      <4>2. start'.op = IF start.step < 4 THEN "load" ELSE "select"
        BY <1>1, <4>1 DEF StartIsRecord
      <4>3. QED
        BY <4>2
    <3>3. QED
      BY <3>1, <3>2
  <2>2. QED
    BY <2>1
<1>7. CASE Select
  BY <1>1, <1>7 DEF Select, Fail, StartIsRecord
<1>8. QED
  BY <1>2, <1>3, <1>4, <1>5, <1>6, <1>7
  DEF Next, vars, NextDay, Deliver, Prepare, Clear, BeginPut, EndPut, BreakOff

(* A start after a push that broke off succeeds only if the push had not begun *)
(* to clear or had all but the end of its last file: otherwise FindLatestFile  *)
(* meets an empty directory.                                                   *)
THEOREM CutPushesAreNoticed == Spec => CutPushIsNoticed
<1>1. Init => IInv /\ NoticeInv
  BY InitIInv, InitNotice
<1>2. IInv /\ NoticeInv /\ [Next]_vars => (IInv /\ NoticeInv)'
  BY NextIInv, NextNotice
<1>3. IInv /\ NoticeInv /\ [Next]_vars =>
        [start.op # start'.op /\ Undisturbed' /\ start'.op = "running"
           => \/ push.ended = "complete"
              \/ push.ended = "clear" /\ push.at = 1
              \/ push.ended = "putting" /\ push.at = 4]_vars
  <2> SUFFICES ASSUME IInv, NoticeInv, [Next]_vars,
                      start.op # start'.op, Undisturbed', start'.op = "running"
               PROVE  \/ push.ended = "complete"
                      \/ push.ended = "clear" /\ push.at = 1
                      \/ push.ended = "putting" /\ push.at = 4
    OBVIOUS
  <2>1. start.op = "select" /\ ~start.overlaps
    BY OnlySelectSucceeds DEF Undisturbed
  <2>2. push.op = "idle" /\ \A k \in Steps : directory[k] # {}
    BY <2>1 DEF NoticeInv, UndisturbedFinds, Loading
  <2>3. QED
    BY <2>2 DEF NoticeInv, PushLeaves, LeavesGap
<1>4. QED
  BY <1>1, <1>2, <1>3, PTL DEF Spec, CutPushIsNoticed
=============================================================================
